---- MODULE Spec2Model ----
(***************************************************************************)
(* The sales DetailPage of the box-office dashboard                        *)
(* (graphique_dual_axes/frontend/index.js): the fetch effect with its      *)
(* cancellation flag, pagination and cache, the reconstruction of the      *)
(* calendar-dense cumulative series, and the period statistics.            *)
(*                                                                         *)
(* Dates are day numbers (days since 1970-01-01); an ISO day string        *)
(* 'YYYY-MM-DD' is its day number, so that string order is number order.   *)
(* A Date object is [valid, t] with t in hours since the epoch.            *)
(***************************************************************************)
EXTENDS Integers, Sequences, FiniteSets, TLC

VARIABLES
    timeZone,         \* the time zone of the browser (environment)
    \* props of DetailPage
    representations,  \* the ids of the show's representations, in table order
    supabaseUrl,
    supabaseAnonKey,
    \* state of DetailPage
    selectedRepId,
    salesData,
    loading,
    error,
    showAll,          \* the 'Afficher tout' checkbox of the table
    dateFrom,
    dateTo,
    cacheRef,         \* cacheRef.current: cache key -> series
    \* the fetch effect
    effectDue,        \* a dependency of the effect changed since its last run
    reqs,             \* the calls of fetchSales the page still holds
    calls,            \* the number of calls of fetchSales that went to the network
    \* the reconstruction taken alone
    rcRows,           \* the fetched rows (data)
    rcMode,           \* "none", "single" or "all"
    rcOut,            \* the series (formatted)
    \* the routing grid (RoutageApp)
    sortEngine,       \* the Array.prototype.sort of the browser (environment)
    eventRecords,     \* useRecords(eventsTable)
    weekRecords,      \* useRecords(weeksTable)
    blocRecords,      \* useRecords(blocsTable)
    selectedSiteId,
    selectedWeekId,
    selectedCanalId,
    edits,            \* the number of edits of the event records so far
    \* the venues map (MapExtensionApp)
    storage,          \* localStorage, the item under storageKey (environment)
    mounted,          \* the page is open
    autoCenterOnLoad, \* custom property
    geocodingInputs,  \* the number of records to geocode
    isMapReady,
    geocodingStatus,
    locations,        \* the number of geocoded locations
    viewState,
    savedViewRef,
    initialCameraAppliedRef,
    hideMapUntilCameraReady,  \* as computed by the last render
    renderDue,        \* a state was set since the last render
    viewDue,          \* viewState changed since the persist effect ran
    cameraDue         \* a dependency of the initial view effect changed

pageVars == <<representations, supabaseUrl, supabaseAnonKey, selectedRepId, salesData,
              loading, error, showAll, dateFrom, dateTo, cacheRef, effectDue, reqs, calls>>
reconVars == <<rcRows, rcMode, rcOut>>
gridVars == <<sortEngine, eventRecords, weekRecords, blocRecords, selectedSiteId,
              selectedWeekId, selectedCanalId, edits>>
mapVars == <<storage, mounted, autoCenterOnLoad, geocodingInputs, isMapReady,
             geocodingStatus, locations, viewState, savedViewRef,
             initialCameraAppliedRef, hideMapUntilCameraReady, renderDue, viewDue,
             cameraDue>>
vars == <<timeZone, pageVars, reconVars, gridVars, mapVars>>

\* ------------------------------------------------------------------------
\* Bounds of the model
\* ------------------------------------------------------------------------
MaxDay == 3        \* observed days are 1..MaxDay
MaxRows == 3       \* rows of an enumerated input of the reconstruction
MaxReq == 2        \* calls of fetchSales that go to the network

\* ------------------------------------------------------------------------
\* Values of the rows
\* ------------------------------------------------------------------------
NullDate == -1     \* row.date is null
NoValue == -1      \* a null / unparsable sold, free or total
EmptyDate == -1    \* dateFrom / dateTo: the empty string
pageSize == 1000

Perfs == {"recA", "recB"}
Days == 1..MaxDay

\* cumulative counters carried by a row: the three components move in
\* different directions from one triple to the other
Vals == { [sold |-> 2, free |-> NoValue, total |-> 1],
          [sold |-> 1, free |-> 1, total |-> 2] }

Rows == [record_id : Perfs, date : Days \cup {NullDate}, v : Vals]

Max(a, b) == IF a >= b THEN a ELSE b
Min(a, b) == IF a <= b THEN a ELSE b
SetMax(S) == CHOOSE x \in S : \A y \in S : y <= x
SetMin(S) == CHOOSE x \in S : \A y \in S : x <= y

\* ------------------------------------------------------------------------
\* JavaScript Date, as far as the reconstruction loop uses it
\* ------------------------------------------------------------------------
\* The environment's time zone: offset o1 (hours, local = UTC + offset)
\* before the instant T (hours since the epoch), o2 from T on.
UTC == [o1 |-> 0, o2 |-> 0, T |-> 0]
\* 02:00 EST -> 03:00 EDT at 07:00Z of day 2
SpringForward == [o1 |-> 0 - 5, o2 |-> 0 - 4, T |-> 24 * 2 + 7]
\* 02:00 EDT -> 01:00 EST at 06:00Z of day 2
FallBack == [o1 |-> 0 - 4, o2 |-> 0 - 5, T |-> 24 * 2 + 6]
TimeZones == {UTC, SpringForward, FallBack}

InvalidDate == [valid |-> FALSE, t |-> 0]
\* new Date('YYYY-MM-DD'): midnight UTC of that day; new Date('null') and
\* new Date(undefined) are Invalid Date
NewDateOfString(day) ==
    IF day = NullDate THEN InvalidDate ELSE [valid |-> TRUE, t |-> 24 * day]
\* new Date(null) is the epoch
NewDateOfNull == [valid |-> TRUE, t |-> 0]

LocalTime(t, tz) == IF t < tz.T THEN t + tz.o1 ELSE t + tz.o2
\* local wall clock to UTC; a wall-clock time that exists twice or not at all
\* is read with the offset in force before the transition
LocalToUTC(l, tz) ==
    IF l - tz.o1 < tz.T THEN l - tz.o1
    ELSE IF l - tz.o2 >= tz.T THEN l - tz.o2
    ELSE l - tz.o1
\* d.setDate(d.getDate() + 1): one day later on the local wall clock
setDatePlusOne(d, tz) == [valid |-> TRUE, t |-> LocalToUTC(LocalTime(d.t, tz) + 24, tz)]
\* d.toISOString().split('T')[0]: the UTC day
toISODay(d) == d.t \div 24
\* d <= end; false when either side is Invalid Date (NaN)
DateLE(d, end) == d.valid /\ end.valid /\ d.t <= end.t

\* ------------------------------------------------------------------------
\* Reconstruction of the series (fetchSales, after the pagination loop)
\* ------------------------------------------------------------------------
\* row.sold || 0, row.free || 0, parseFloat(row.total) || 0
OrZero(x) == IF x = NoValue THEN 0 ELSE x
Entry(row) == [sold |-> OrZero(row.v.sold), free |-> OrZero(row.v.free),
               total |-> OrZero(row.v.total)]
\* row.date ? row.date.split('T')[0] : row.date
DayOf(row) == row.date

\* the keys of an object / the members of the date set, sorted as strings:
\* ISO days ascending, then 'null'
RECURSIVE SortAsc(_)
SortAsc(S) == IF S = {} THEN <<>>
              ELSE LET m == SetMin(S) IN <<m>> \o SortAsc(S \ {m})
SortDays(S) == SortAsc(S \ {NullDate})
               \o (IF NullDate \in S THEN <<NullDate>> ELSE <<>>)

\* data.forEach(row => byDay[day] = {...}): the last row of a day wins
byDay(data) ==
    [k \in {DayOf(data[i]) : i \in DOMAIN data} |->
        Entry(data[SetMax({i \in DOMAIN data : DayOf(data[i]) = k})])]

Zero == [sold |-> 0, free |-> 0, total |-> 0]
\* a variant that takes the day's row as it is
MaxEntryTakesRow(last, e) == e
MaxEntry(last, e) == [sold |-> Max(last.sold, e.sold), free |-> Max(last.free, e.free),
                      total |-> Max(last.total, e.total)]
Point(day, e) == [date |-> day, ventes |-> e.sold, gratuits |-> e.free,
                  total_dollars |-> e.total]

\* a variant that restarts from zero on a day without a row
RECURSIVE SingleLoopZeroFill(_, _, _, _, _, _)
SingleLoopZeroFill(d, end, last, bd, tz, formatted) ==
    IF ~DateLE(d, end) THEN formatted
    ELSE LET key == toISODay(d)
             last2 == IF key \in DOMAIN bd THEN MaxEntry(last, bd[key]) ELSE Zero
         IN SingleLoopZeroFill(setDatePlusOne(d, tz), end, last2, bd, tz,
                               Append(formatted, Point(key, last2)))

RECURSIVE SingleLoop(_, _, _, _, _, _)
SingleLoop(d, end, last, bd, tz, formatted) ==
    IF ~DateLE(d, end) THEN formatted
    ELSE LET key == toISODay(d)
             last2 == IF key \in DOMAIN bd THEN MaxEntry(last, bd[key]) ELSE last
         IN SingleLoop(setDatePlusOne(d, tz), end, last2, bd, tz,
                       Append(formatted, Point(key, last2)))

ReconstructSingle(data, tz) ==
    LET bd == byDay(data)
        days == SortDays(DOMAIN bd)
    IN IF Len(days) > 0
       THEN SingleLoop(NewDateOfString(days[1]), NewDateOfString(days[Len(days)]),
                       Zero, bd, tz, <<>>)
       ELSE <<>>

\* byRecord[rid][day]: the last row of a performance and day wins
byRecord(data) ==
    [rid \in {data[i].record_id : i \in DOMAIN data} |->
        byDay(SelectSeq(data, LAMBDA row : row.record_id = rid))]

\* lastKnown after the update of one day: a performance gets an entry at its
\* first row
\* a variant that forgets the performances without a row on that day
LastKnownAtNoCarry(lastKnown, br, day) ==
    LET hit == {rid \in DOMAIN br : day \in DOMAIN br[rid]}
    IN [rid \in hit |->
          MaxEntry(IF rid \in DOMAIN lastKnown THEN lastKnown[rid] ELSE Zero,
                   br[rid][day])]

LastKnownAt(lastKnown, br, day) ==
    LET hit == {rid \in DOMAIN br : day \in DOMAIN br[rid]}
    IN [rid \in DOMAIN lastKnown \cup hit |->
          IF rid \in hit
          THEN MaxEntry(IF rid \in DOMAIN lastKnown THEN lastKnown[rid] ELSE Zero,
                        br[rid][day])
          ELSE lastKnown[rid]]

RECURSIVE SumOver(_, _, _)
SumOver(S, f, c) == IF S = {} THEN 0
                    ELSE LET x == CHOOSE x \in S : TRUE
                         IN f[x][c] + SumOver(S \ {x}, f, c)

RECURSIVE AllLoop(_, _, _, _, _, _)
AllLoop(d, end, lastKnown, br, tz, formatted) ==
    IF ~DateLE(d, end) THEN formatted
    ELSE LET day == toISODay(d)
             lk == LastKnownAt(lastKnown, br, day)
             sum == [sold |-> SumOver(DOMAIN lk, lk, "sold"),
                     free |-> SumOver(DOMAIN lk, lk, "free"),
                     total |-> SumOver(DOMAIN lk, lk, "total")]
         IN AllLoop(setDatePlusOne(d, tz), end, lk, br, tz,
                    Append(formatted, Point(day, sum)))

\* new Date(sortedDates[i]): undefined for an empty list, null for a null date
NewDateOfMember(sortedDates, i) ==
    IF Len(sortedDates) = 0 THEN InvalidDate
    ELSE IF sortedDates[i] = NullDate THEN NewDateOfNull
    ELSE NewDateOfString(sortedDates[i])

ReconstructAll(data, tz) ==
    LET br == byRecord(data)
        sortedDates == SortDays({DayOf(data[i]) : i \in DOMAIN data})
    IN AllLoop(NewDateOfMember(sortedDates, 1),
               NewDateOfMember(sortedDates, Len(sortedDates)),
               << >>, br, tz, <<>>)

Reconstruct(isAllMode, data, tz) ==
    IF isAllMode THEN ReconstructAll(data, tz) ELSE ReconstructSingle(data, tz)

\* ------------------------------------------------------------------------
\* The remote source: a table of rows served by limit / offset
\* ------------------------------------------------------------------------
\* A sequence of rows is kept run-length encoded: [row, n] stands for n
\* consecutive copies of row. For the reconstruction a run of equal rows
\* acts as one row (byDay[day] = ... assigns the same entry n times).
RLen(bs) == IF bs = <<>> THEN 0
            ELSE LET RECURSIVE Sum(_)
                     Sum(k) == IF k = 0 THEN 0 ELSE bs[k].n + Sum(k - 1)
                 IN Sum(Len(bs))
RowsOf(bs) == [i \in DOMAIN bs |-> bs[i].row]

\* the first k rows of bs / bs without its first k rows
RECURSIVE Take(_, _)
Take(bs, k) ==
    IF k <= 0 \/ bs = <<>> THEN <<>>
    ELSE IF Head(bs).n <= k THEN <<Head(bs)>> \o Take(Tail(bs), k - Head(bs).n)
    ELSE <<[row |-> Head(bs).row, n |-> k]>>
RECURSIVE Drop(_, _)
Drop(bs, k) ==
    IF k <= 0 \/ bs = <<>> THEN bs
    ELSE IF Head(bs).n <= k THEN Drop(Tail(bs), k - Head(bs).n)
    ELSE <<[row |-> Head(bs).row, n |-> Head(bs).n - k]>> \o Tail(bs)
\* data.concat(page), two runs of the same row meeting at the seam made one
Concat(data, page) ==
    IF data = <<>> THEN page
    ELSE IF page = <<>> THEN data
    ELSE IF data[Len(data)].row = Head(page).row
    THEN SubSeq(data, 1, Len(data) - 1)
         \o <<[row |-> Head(page).row, n |-> data[Len(data)].n + Head(page).n]>>
         \o Tail(page)
    ELSE data \o page

HighVal == [sold |-> 2, free |-> NoValue, total |-> 1]
LowVal == [sold |-> 1, free |-> 1, total |-> 2]
Row(rid, day, v) == [record_id |-> rid, date |-> day, v |-> v]
ValOf(rid) == IF rid = "recA" THEN HighVal ELSE LowVal

\* what the table holds for the requested ids (ordered by date): nothing;
\* exactly one page; 1000 + 1000 + 400 rows
TableNames == {"empty", "onePage", "threePages"}
Table(name, ids) ==
    LET a == ids[1]
        b == ids[Len(ids)]
    IN CASE name = "empty" -> <<>>
         [] name = "onePage" -> <<[row |-> Row(a, 2, ValOf(a)), n |-> pageSize]>>
         [] name = "threePages" -> <<[row |-> Row(a, 1, ValOf(b)), n |-> pageSize + 500],
                                     [row |-> Row(b, 3, ValOf(a)), n |-> 900]>>
\* the response to &limit=..&offset=..
PageOf(table, limit, offset) == Take(Drop(table, offset), limit)

\* ------------------------------------------------------------------------
\* DetailPage: props, state and the fetch effect
\* ------------------------------------------------------------------------
NoError == "null"
RepLists == {<<>>, <<"recA", "recB">>, <<"recB", "recA">>}
\* <<supabaseUrl, supabaseAnonKey>>: configured, no endpoint, no key
Configs == {<<"url", "key">>, <<"", "key">>, <<"url", "">>}
Range(q) == {q[i] : i \in DOMAIN q}

\* representations.map(r => r.id).join(','): the list of ids stands for the
\* joined string (no id holds a comma)
allRepIds == representations
isAllMode == selectedRepId = ""
\* isAllMode ? `all_${allRepIds}` : selectedRepId
cacheKey == IF isAllMode THEN <<"all_">> \o allRepIds ELSE <<selectedRepId>>
\* the representations whose rawDate is before today or whose rawStatus
\* holds 'annul'
PastOrCancelled == {"recB"}
\* the rows of the table: all of them with showAll, else the upcoming ones
filteredReps ==
    LET Upcoming(id) == id \notin PastOrCancelled
    IN IF showAll THEN representations ELSE SelectSeq(representations, Upcoming)
\* a variant that asks for the rows of the table only
filterIdsOfTable == IF isAllMode THEN filteredReps ELSE <<selectedRepId>>
\* record_id=in.(allRepIds) or record_id=eq.selectedRepId
filterIds == IF isAllMode THEN allRepIds ELSE <<selectedRepId>>

\* The calls of fetchSales the page still holds, oldest first: those in
\* flight, and the one of the last effect run also once it has returned.
\* The request of the last effect run is the one whose didCancel is false.
cur == IF \E i \in DOMAIN reqs : ~reqs[i].didCancel
       THEN CHOOSE i \in DOMAIN reqs : ~reqs[i].didCancel
       ELSE 0
InFlight(r) == r.pc # "returned"
Without(rs, i) == SubSeq(rs, 1, i - 1) \o SubSeq(rs, i + 1, Len(rs))

\* the cleanup of the previous effect run: didCancel = true (a request that
\* has returned is dropped with its closure)
CleanupNoCancel(rs) == SelectSeq(rs, InFlight)
Cleanup(rs) ==
    SelectSeq([i \in DOMAIN rs |-> [rs[i] EXCEPT !.didCancel = TRUE]], InFlight)

\* if (!didCancel) before the commit and in the catch
ShouldCommitAlways(r) == TRUE
ShouldCommit(r) == ~r.didCancel
\* if (didCancel) return; before the next page request
ShouldContinueAlways(r) == TRUE
ShouldContinue(r) == ~r.didCancel
\* if (page.length < pageSize) break;
IsLastPageWhenEmpty(page) == RLen(page) = 0
IsLastPage(page) == RLen(page) < pageSize

\* the routing grid is not mounted
GridIdle ==
    /\ sortEngine = "v8"
    /\ eventRecords = <<>>
    /\ weekRecords = <<>>
    /\ blocRecords = <<>>
    /\ selectedSiteId = "__all__"
    /\ selectedWeekId = "__all__"
    /\ selectedCanalId = "__all__"
    /\ edits = 0

\* ------------------------------------------------------------------------
\* The venues map: views and the item of localStorage
\* ------------------------------------------------------------------------
\* A view is its latitude and longitude, in tenths of a degree, and its zoom.
View(latitude, longitude, zoom) ==
    [latitude |-> latitude, longitude |-> longitude, zoom |-> zoom]
\* the default location (New York City)
DefaultView == View(400, -745, 9)
NotNumber == -9999     \* a value that is not of type 'number'
\* the item under storageKey: none, a text that is not JSON, or the JSON text
\* of an object of which some of the three fields may not be numbers
NoItem == [kind |-> "null", latitude |-> 0, longitude |-> 0, zoom |-> 0]
Garbage == [kind |-> "text", latitude |-> 0, longitude |-> 0, zoom |-> 0]
\* JSON.stringify(viewState)
stringify(view) ==
    [kind |-> "json", latitude |-> view.latitude, longitude |-> view.longitude,
     zoom |-> view.zoom]
\* savedViewRef.current: null or a view
NoSaved == [kind |-> "null", latitude |-> 0, longitude |-> 0, zoom |-> 0]
Saved(view) ==
    [kind |-> "view", latitude |-> view.latitude, longitude |-> view.longitude,
     zoom |-> view.zoom]
ViewOf(saved) == View(saved.latitude, saved.longitude, saved.zoom)
\* the load effect: localStorage.getItem, JSON.parse and the three typeof
\* tests; no item, a text that does not parse (the exception is swallowed)
\* and an object with a field that is not a number leave the ref at null
ParseSaved(raw) ==
    IF raw.kind = "null" THEN NoSaved
    ELSE IF raw.kind = "text" THEN NoSaved
    ELSE IF /\ raw.latitude # NotNumber
            /\ raw.longitude # NotNumber
            /\ raw.zoom # NotNumber
         THEN Saved(View(raw.latitude, raw.longitude, raw.zoom))
         ELSE NoSaved

\* the venues map is not mounted
MapIdle ==
    /\ storage = NoItem
    /\ mounted = FALSE
    /\ autoCenterOnLoad = TRUE
    /\ geocodingInputs = 0
    /\ isMapReady = FALSE
    /\ geocodingStatus = "idle"
    /\ locations = 0
    /\ viewState = DefaultView
    /\ savedViewRef = NoSaved
    /\ initialCameraAppliedRef = FALSE
    /\ hideMapUntilCameraReady = TRUE
    /\ renderDue = FALSE
    /\ viewDue = FALSE
    /\ cameraDue = FALSE

\* The page is run in UTC; the reconstruction is checked in every time zone
\* under SpecRecon.
Init ==
    /\ GridIdle
    /\ MapIdle
    /\ timeZone = UTC
    /\ representations \in RepLists
    /\ \E c \in Configs : supabaseUrl = c[1] /\ supabaseAnonKey = c[2]
    /\ selectedRepId = ""
    /\ salesData = <<>>
    /\ loading = FALSE
    /\ error = NoError
    /\ showAll = FALSE
    /\ dateFrom = EmptyDate
    /\ dateTo = EmptyDate
    /\ cacheRef = <<>>
    /\ effectDue = TRUE
    /\ reqs = <<>>
    /\ calls = 0
    /\ rcRows = <<>>
    /\ rcMode = "none"
    /\ rcOut = <<>>

\* The effect runs after a render in which one of its dependencies
\* [selectedRepId, supabaseUrl, supabaseAnonKey, baseId, allRepIds] changed
\* (and after the first one): the cleanup of the last run, then the body.
\* React runs the effects of a render before it renders again, so no prop or
\* state changes while the effect is due; a response of the network may be
\* handled before it runs.

\* a click on a row of the table or on 'Total'
SelectRep(id) ==
    /\ ~effectDue
    /\ id # selectedRepId
    /\ id = "" \/ id \in Range(representations)
    /\ selectedRepId' = id
    /\ effectDue' = TRUE
    /\ UNCHANGED <<timeZone, showAll, representations, supabaseUrl, supabaseAnonKey, salesData,
                   loading, error, dateFrom, dateTo, cacheRef, reqs, calls, reconVars, gridVars, mapVars>>

\* the parent renders DetailPage with other representations
SetRepresentations(reps) ==
    /\ ~effectDue
    /\ reps # representations
    /\ representations' = reps
    /\ effectDue' = TRUE
    /\ UNCHANGED <<timeZone, showAll, supabaseUrl, supabaseAnonKey, selectedRepId, salesData,
                   loading, error, dateFrom, dateTo, cacheRef, reqs, calls, reconVars, gridVars, mapVars>>

\* the operator edits the endpoint or the key
SetConfig(url, key) ==
    /\ ~effectDue
    /\ <<url, key>> # <<supabaseUrl, supabaseAnonKey>>
    /\ supabaseUrl' = url
    /\ supabaseAnonKey' = key
    /\ effectDue' = TRUE
    /\ UNCHANGED <<timeZone, showAll, representations, selectedRepId, salesData, loading, error,
                   dateFrom, dateTo, cacheRef, reqs, calls, reconVars, gridVars, mapVars>>

\* a variant of the branch without setError(null)
EffectNoConfigKeepsError ==
    /\ effectDue
    /\ supabaseUrl = "" \/ supabaseAnonKey = ""
    /\ effectDue' = FALSE
    /\ reqs' = Cleanup(reqs)
    /\ salesData' = <<>>
    /\ loading' = FALSE
    /\ UNCHANGED <<timeZone, showAll, representations, supabaseUrl, supabaseAnonKey, selectedRepId,
                   error, dateFrom, dateTo, cacheRef, calls, reconVars, gridVars, mapVars>>

\* if (!supabaseUrl || !supabaseAnonKey) { ...; return; }
EffectNoConfig ==
    /\ effectDue
    /\ supabaseUrl = "" \/ supabaseAnonKey = ""
    /\ effectDue' = FALSE
    /\ reqs' = Cleanup(reqs)
    /\ salesData' = <<>>
    /\ loading' = FALSE
    /\ error' = NoError
    /\ UNCHANGED <<timeZone, showAll, representations, supabaseUrl, supabaseAnonKey, selectedRepId,
                   dateFrom, dateTo, cacheRef, calls, reconVars, gridVars, mapVars>>

\* if (isAllMode && !allRepIds) { setSalesData([]); return; }
EffectNoReps ==
    /\ effectDue
    /\ supabaseUrl # "" /\ supabaseAnonKey # ""
    /\ isAllMode /\ allRepIds = <<>>
    /\ effectDue' = FALSE
    /\ reqs' = Cleanup(reqs)
    /\ salesData' = <<>>
    /\ UNCHANGED <<timeZone, showAll, representations, supabaseUrl, supabaseAnonKey, selectedRepId,
                   loading, error, dateFrom, dateTo, cacheRef, calls, reconVars, gridVars, mapVars>>

NewRequest(pc, outcome, table, offsets) ==
    [cacheKey |-> cacheKey, isAllMode |-> isAllMode, ids |-> filterIds,
     didCancel |-> FALSE, pc |-> pc, outcome |-> outcome, table |-> table,
     offset |-> 0, offsets |-> offsets, data |-> <<>>]

\* fetchSales() with the key in the cache: served from the cache (no request,
\* not counted in calls)
EffectCacheHit ==
    /\ effectDue
    /\ supabaseUrl # "" /\ supabaseAnonKey # ""
    /\ ~(isAllMode /\ allRepIds = <<>>)
    /\ cacheKey \in DOMAIN cacheRef
    /\ effectDue' = FALSE
    /\ reqs' = Append(Cleanup(reqs), NewRequest("returned", "hit", "empty", <<>>))
    /\ salesData' = cacheRef[cacheKey]
    /\ loading' = FALSE
    /\ UNCHANGED <<timeZone, showAll, representations, supabaseUrl, supabaseAnonKey, selectedRepId,
                   error, dateFrom, dateTo, cacheRef, calls, reconVars, gridVars, mapVars>>

\* fetchSales() up to its first await: the request of the first page
EffectFetch ==
    /\ effectDue
    /\ supabaseUrl # "" /\ supabaseAnonKey # ""
    /\ ~(isAllMode /\ allRepIds = <<>>)
    /\ cacheKey \notin DOMAIN cacheRef
    /\ calls < MaxReq
    /\ calls' = calls + 1
    /\ effectDue' = FALSE
    /\ \E table \in TableNames :
          reqs' = Append(Cleanup(reqs), NewRequest("fetch", "none", table, <<0>>))
    /\ loading' = TRUE
    /\ error' = NoError
    /\ UNCHANGED <<timeZone, showAll, representations, supabaseUrl, supabaseAnonKey, selectedRepId,
                   salesData, dateFrom, dateTo, cacheRef, reconVars, gridVars, mapVars>>

\* a variant in which a request that ends is left in flight (asked again)
ReturnedStillInFlight(rs, i, outcome, data) == rs
\* a request that returns: the one of the last effect run is kept as it
\* ended, a cancelled one is dropped with its pages
Returned(rs, i, outcome, data) ==
    IF rs[i].didCancel THEN Without(rs, i)
    ELSE IF outcome = "committed"
    THEN [rs EXCEPT ![i].pc = "returned", ![i].outcome = outcome, ![i].data = data]
    ELSE [rs EXCEPT ![i].pc = "returned", ![i].outcome = outcome, ![i].data = <<>>,
                    ![i].table = "empty", ![i].offset = 0, ![i].offsets = <<>>]

\* A page request is one step: await fetch(...) and await response.json()
\* follow each other without reading or writing anything of the page.

\* await fetch(...) rejects, or resolves with !response.ok: the catch
FetchFail(i, message) ==
    /\ reqs[i].pc = "fetch"
    /\ reqs' = Returned(reqs, i, "error", <<>>)
    /\ IF ShouldCommit(reqs[i])
       THEN error' = message /\ loading' = FALSE
       ELSE UNCHANGED <<error, loading>>
    /\ UNCHANGED <<timeZone, showAll, representations, supabaseUrl, supabaseAnonKey, selectedRepId,
                   salesData, dateFrom, dateTo, cacheRef, effectDue, calls, reconVars, gridVars, mapVars>>

\* the response holds a full page
JsonFullPage(i) ==
    LET r == reqs[i]
        page == PageOf(Table(r.table, r.ids), pageSize, r.offset)
    IN /\ r.pc = "fetch"
       /\ ~IsLastPage(page)
       /\ reqs' = IF ShouldContinue(r)
                  THEN [reqs EXCEPT ![i] =
                          [r EXCEPT !.data = Concat(r.data, page),
                                    !.offset = r.offset + pageSize,
                                    !.offsets = Append(r.offsets, r.offset + pageSize),
                                    !.pc = "fetch"]]
                  ELSE Returned(reqs, i, "discarded", <<>>)
       /\ UNCHANGED <<timeZone, showAll, representations, supabaseUrl, supabaseAnonKey,
                      selectedRepId, salesData, loading, error, dateFrom, dateTo, cacheRef,
                      effectDue, calls, reconVars, gridVars, mapVars>>

\* a variant that stores nothing
CacheSetNothing(cache, key, formatted) == cache
\* cacheRef.current.set(cacheKey, formatted)
CacheSet(cache, key, formatted) ==
    [k \in DOMAIN cache \cup {key} |-> IF k = key THEN formatted ELSE cache[k]]

\* the response holds a short page: the loop ends, and the
\* series is reconstructed and committed unless the request was cancelled
JsonLastPage(i) ==
    LET r == reqs[i]
        page == PageOf(Table(r.table, r.ids), pageSize, r.offset)
        data == Concat(r.data, page)
        formatted == Reconstruct(r.isAllMode, RowsOf(data), timeZone)
    IN /\ r.pc = "fetch"
       /\ IsLastPage(page)
       /\ IF ShouldCommit(r)
          THEN /\ reqs' = Returned(reqs, i, "committed", data)
               /\ cacheRef' = CacheSet(cacheRef, r.cacheKey, formatted)
               /\ salesData' = formatted
               /\ loading' = FALSE
          ELSE /\ reqs' = Returned(reqs, i, "discarded", <<>>)
               /\ UNCHANGED <<cacheRef, salesData, loading>>
       /\ UNCHANGED <<timeZone, showAll, representations, supabaseUrl, supabaseAnonKey,
                      selectedRepId, error, dateFrom, dateTo, effectDue, calls, reconVars, gridVars, mapVars>>

ErrorMessages == {"Erreur Supabase: 500 Internal Server Error"}

Next ==
    \/ \E id \in Perfs \cup {""} : SelectRep(id)
    \/ \E reps \in RepLists : SetRepresentations(reps)
    \/ \E c \in Configs : SetConfig(c[1], c[2])
    \/ EffectNoConfig
    \/ EffectNoReps
    \/ EffectCacheHit
    \/ EffectFetch
    \/ \E i \in DOMAIN reqs, message \in ErrorMessages : FetchFail(i, message)
    \/ \E i \in DOMAIN reqs : JsonFullPage(i)
    \/ \E i \in DOMAIN reqs : JsonLastPage(i)

Spec == Init /\ [][Next]_vars

\* ------------------------------------------------------------------------
\* Properties of the fetch effect (checked under Spec)
\* ------------------------------------------------------------------------
\* this step is a step of the cancelled request at position i
StaleStep(i) ==
    /\ reqs[i].didCancel
    /\ \/ reqs' = Without(reqs, i)
       \/ Len(reqs') = Len(reqs) /\ reqs'[i] # reqs[i]
SeriesOf(r) == Reconstruct(r.isAllMode, RowsOf(r.data), timeZone)

\* C1: a request whose cancellation flag is set (a later effect run has
\* superseded it) never writes salesData, loading or error, and whenever the
\* request of the last effect run has committed, salesData is the series
\* reconstructed from that request's rows, whatever the older requests did
\* before or after.
LatestRequestWins ==
    /\ [][\A i \in DOMAIN reqs :
            StaleStep(i) => UNCHANGED <<salesData, loading, error>>]_vars
    /\ [](cur # 0 /\ reqs[cur].outcome = "committed"
            => salesData = SeriesOf(reqs[cur]))

\* the request of the last effect run has committed while an older request
\* for another selection, with other rows, still waits for its last page
LatestRequestWinsWitness ==
    /\ cur # 0
    /\ reqs[cur].outcome = "committed"
    /\ salesData = SeriesOf(reqs[cur])
    /\ \E i \in DOMAIN reqs :
          /\ reqs[i].didCancel
          /\ reqs[i].cacheKey # reqs[cur].cacheKey
          /\ reqs[i].pc = "fetch"
          /\ LET t == Table(reqs[i].table, reqs[i].ids)
             IN /\ IsLastPage(PageOf(t, pageSize, reqs[i].offset))
                /\ Reconstruct(reqs[i].isAllMode, RowsOf(t), timeZone) # salesData

\* C2: the cache changes only in a step in which the request of the last
\* effect run, not cancelled, commits: the same step sets salesData to the
\* series it stores, it adds the entry of that request's key and touches no
\* other, and the key had no entry before, so that a key is written at most
\* once; a cancelled or failed request adds nothing.
CacheWriteGuard ==
    [][cacheRef' # cacheRef =>
         /\ cur # 0
         /\ reqs[cur].pc = "fetch"
         /\ ~reqs[cur].didCancel
         /\ Len(reqs') = Len(reqs)
         /\ reqs'[cur].outcome = "committed"
         /\ reqs[cur].cacheKey \notin DOMAIN cacheRef
         /\ DOMAIN cacheRef' = DOMAIN cacheRef \cup {reqs[cur].cacheKey}
         /\ \A k \in DOMAIN cacheRef : cacheRef'[k] = cacheRef[k]
         /\ salesData' = cacheRef'[reqs[cur].cacheKey]]_vars

\* two overlapping requests for the same key: the later one has committed
\* and written the entry, the cancelled one is still in flight
CacheWriteGuardWitness ==
    /\ cur # 0
    /\ reqs[cur].outcome = "committed"
    /\ reqs[cur].cacheKey \in DOMAIN cacheRef
    /\ \E i \in DOMAIN reqs :
          /\ reqs[i].didCancel
          /\ reqs[i].pc = "fetch"
          /\ reqs[i].cacheKey = reqs[cur].cacheKey

\* C3: the step a cancelled request takes when its page request returns is
\* its last: it issues no further page request, it is gone with the pages it
\* had fetched, and salesData, loading, error and the cache are unchanged.
CancelledStops ==
    [][\A i \in DOMAIN reqs :
         StaleStep(i) =>
            /\ reqs' = Without(reqs, i)
            /\ UNCHANGED <<salesData, loading, error, cacheRef>>]_vars

\* a request superseded in the middle of its pagination: it holds a fetched
\* page and waits for the next one
CancelledStopsWitness ==
    \E i \in DOMAIN reqs :
        /\ reqs[i].didCancel
        /\ reqs[i].pc = "fetch"
        /\ reqs[i].data # <<>>
        /\ ~IsLastPage(PageOf(Table(reqs[i].table, reqs[i].ids), pageSize, reqs[i].offset))

\* C4: with page size 1000 a request asks for the offsets 0, 1000, 2000, ...,
\* holds the concatenation of the pages received so far, never asks for more
\* than (rows of the source) div 1000 + 1 pages, and commits after exactly
\* that many with all the rows of the source in order.
PaginationTerminates ==
    \A i \in DOMAIN reqs :
        LET r == reqs[i]
            t == Table(r.table, r.ids)
        IN /\ \A k \in DOMAIN r.offsets : r.offsets[k] = (k - 1) * 1000
           /\ Len(r.offsets) <= RLen(t) \div 1000 + 1
           /\ r.pc = "fetch" =>
                 /\ r.offset = r.offsets[Len(r.offsets)]
                 /\ r.data = Take(t, r.offset)
                 /\ RLen(r.data) = r.offset
           /\ r.outcome = "committed" =>
                 /\ Len(r.offsets) = RLen(t) \div 1000 + 1
                 /\ r.data = t

\* pages of 1000, 1000 and 400 rows: 3 requests, 2400 rows
PaginationTerminatesWitness ==
    /\ cur # 0
    /\ reqs[cur].outcome = "committed"
    /\ reqs[cur].offsets = <<0, 1000, 2000>>
    /\ RLen(reqs[cur].data) = 2400
    /\ salesData = SeriesOf(reqs[cur])

\* this step is a run of the effect
EffectRuns == effectDue /\ ~effectDue'
\* the configuration is present and the selection names a performance
Fetchable ==
    /\ supabaseUrl # "" /\ supabaseAnonKey # ""
    /\ ~(isAllMode /\ allRepIds = <<>>)
\* a page request of the request of the last effect run is in flight
LiveFetch(rs) == \E i \in DOMAIN rs : rs[i].pc = "fetch" /\ ~rs[i].didCancel

\* C11: once the request of the last effect run has committed, the cache
\* holds its series under its key; an entry of the cache is never removed
\* or changed; and a run of the effect whose key has an entry issues no
\* page request and sets salesData to the entry.
CacheHit ==
    /\ [](cur # 0 /\ reqs[cur].outcome = "committed"
            => /\ reqs[cur].cacheKey \in DOMAIN cacheRef
               /\ cacheRef[reqs[cur].cacheKey] = SeriesOf(reqs[cur]))
    /\ [][\A k \in DOMAIN cacheRef :
             k \in DOMAIN cacheRef' /\ cacheRef'[k] = cacheRef[k]]_vars
    /\ [][EffectRuns /\ Fetchable /\ cacheKey \in DOMAIN cacheRef
            => /\ ~LiveFetch(reqs')
               /\ salesData' = cacheRef[cacheKey]
               /\ cacheRef' = cacheRef]_vars

\* the effect has run for a key whose rows were fetched before: the series
\* on display is the stored one and no page request is in flight
CacheHitWitness ==
    /\ cur # 0
    /\ reqs[cur].outcome = "hit"
    /\ ~effectDue
    /\ salesData # <<>>
    /\ salesData = cacheRef[reqs[cur].cacheKey]
    /\ ~LiveFetch(reqs)

\* the key under which the cache holds the aggregate of the ids of allRepIds
SameSetKeys ==
    {k \in DOMAIN cacheRef : Head(k) = "all_" /\ Range(Tail(k)) = Range(allRepIds)}

\* C12 (as claimed): a run of the effect in aggregate mode, when the cache
\* holds the series of the same set of identifiers listed in any order,
\* issues no page request.
CacheKeyOfIdSet ==
    [][EffectRuns /\ Fetchable /\ isAllMode /\ SameSetKeys # {}
         => ~LiveFetch(reqs')]_vars

MissingConfig ==
    /\ [][EffectRuns /\ (supabaseUrl = "" \/ supabaseAnonKey = "")
            => /\ calls' = calls
               /\ ~LiveFetch(reqs')
               /\ salesData' = <<>>
               /\ loading' = FALSE
               /\ error' = NoError]_vars
    /\ [](~effectDue /\ (supabaseUrl = "" \/ supabaseAnonKey = "")
            => salesData = <<>> /\ loading = FALSE /\ error = NoError)

\* the configuration was emptied while a series was on display and a
\* request in flight
MissingConfigWitness ==
    /\ ~effectDue
    /\ supabaseUrl = "" \/ supabaseAnonKey = ""
    /\ \E k \in DOMAIN cacheRef : cacheRef[k] # <<>>
    /\ \E i \in DOMAIN reqs : reqs[i].didCancel /\ reqs[i].pc = "fetch"
    /\ salesData = <<>>
    /\ error = NoError

\* ------------------------------------------------------------------------
\* The reconstruction alone, on every input of at most MaxRows rows
\* ------------------------------------------------------------------------
RECURSIVE SeqsUpTo(_, _)
SeqsUpTo(S, n) == IF n = 0 THEN {<<>>}
                  ELSE LET shorter == SeqsUpTo(S, n - 1)
                       IN shorter \cup {Append(q, x) : q \in shorter, x \in S}

InitRecon ==
    /\ GridIdle
    /\ MapIdle
    /\ timeZone \in TimeZones
    /\ representations = <<>>
    /\ supabaseUrl = "url"
    /\ supabaseAnonKey = "key"
    /\ selectedRepId = ""
    /\ salesData = <<>>
    /\ loading = FALSE
    /\ error = NoError
    /\ showAll = FALSE
    /\ dateFrom = EmptyDate
    /\ dateTo = EmptyDate
    /\ cacheRef = <<>>
    /\ effectDue = FALSE
    /\ reqs = <<>>
    /\ calls = 0
    /\ rcRows \in SeqsUpTo(Rows, MaxRows)
    /\ rcMode = "none"
    /\ rcOut = <<>>

ReconSingle ==
    /\ rcMode = "none"
    /\ rcMode' = "single"
    /\ rcOut' = Reconstruct(FALSE, rcRows, timeZone)
    /\ UNCHANGED <<timeZone, pageVars, rcRows, gridVars, mapVars>>

ReconAll ==
    /\ rcMode = "none"
    /\ rcMode' = "all"
    /\ rcOut' = Reconstruct(TRUE, rcRows, timeZone)
    /\ UNCHANGED <<timeZone, pageVars, rcRows, gridVars, mapVars>>

NextRecon == ReconSingle \/ ReconAll
SpecRecon == InitRecon /\ [][NextRecon]_vars

\* ------------------------------------------------------------------------
\* Properties of the reconstruction (checked under SpecRecon)
\* ------------------------------------------------------------------------
ObservedDays == {DayOf(rcRows[i]) : i \in DOMAIN rcRows} \ {NullDate}
PrevOf(i) == IF i = 1 THEN Point(0, Zero) ELSE rcOut[i - 1]

Monotonic ==
    rcMode # "none" =>
        \A i \in 1..(Len(rcOut) - 1) :
            /\ rcOut[i].ventes <= rcOut[i + 1].ventes
            /\ rcOut[i].gratuits <= rcOut[i + 1].gratuits
            /\ rcOut[i].total_dollars <= rcOut[i + 1].total_dollars

\* aggregate mode, a performance whose later row is lower than its earlier one
MonotonicWitness ==
    /\ rcMode = "all"
    /\ Len(rcOut) >= 2
    /\ \E i, j \in DOMAIN rcRows :
          /\ rcRows[i].record_id = rcRows[j].record_id
          /\ rcRows[i].date # NullDate /\ rcRows[i].date < rcRows[j].date
          /\ OrZero(rcRows[j].v.sold) < OrZero(rcRows[i].v.sold)

\* C7 (as claimed): for a non-empty set of dated rows the series has exactly
\* one point per calendar day from the earliest to the latest observed date,
\* and for an empty set of rows it is empty.
CalendarDense ==
    rcMode # "none" =>
        /\ rcRows = <<>> => rcOut = <<>>
        /\ (rcRows # <<>> /\ \A i \in DOMAIN rcRows : rcRows[i].date # NullDate) =>
              /\ Len(rcOut) = SetMax(ObservedDays) - SetMin(ObservedDays) + 1
              /\ \A i \in DOMAIN rcOut : rcOut[i].date = SetMin(ObservedDays) + i - 1

\* the carried-forward value of one performance on a day: the component-wise
\* maximum over its rows (the last one of each day) dated on or before it
CarriedOn(rid, day, c) ==
    LET bd == byDay(SelectSeq(rcRows, LAMBDA row : row.record_id = rid))
        seen == {bd[k][c] : k \in {k \in DOMAIN bd : k # NullDate /\ k <= day}}
    IN IF seen = {} THEN 0 ELSE SetMax(seen)

RECURSIVE SumCarried(_, _, _)
SumCarried(S, day, c) ==
    IF S = {} THEN 0
    ELSE LET rid == CHOOSE rid \in S : TRUE
         IN CarriedOn(rid, day, c) + SumCarried(S \ {rid}, day, c)

ModeEquivalence ==
    (/\ rcMode = "all"
     /\ \A i, j \in DOMAIN rcRows : rcRows[i].record_id = rcRows[j].record_id)
        => rcOut = ReconstructSingle(rcRows, timeZone)

\* ------------------------------------------------------------------------
\* The date range and the period statistics (lines 1087-1152)
\* ------------------------------------------------------------------------
\* the values a date input and a preset give to dateFrom and dateTo
PeriodDays == 1..(MaxDay + 2)

\* salesData.filter keeps the objects of salesData: the kept points are
\* named by their positions in salesData
RECURSIVE Positions(_, _, _)
Positions(series, keep(_), i) ==
    IF i > Len(series) THEN <<>>
    ELSE (IF keep(series[i]) THEN <<i>> ELSE <<>>) \o Positions(series, keep, i + 1)

filteredPositionsOf(series, from, to) ==
    LET FromOk(d) == from = EmptyDate \/ d.date >= from
        ToOk(d) == to = EmptyDate \/ d.date <= to
        Both(d) == FromOk(d) /\ ToOk(d)
    IN IF Len(series) = 0 THEN <<>> ELSE Positions(series, Both, 1)

filteredPositions == filteredPositionsOf(salesData, dateFrom, dateTo)

filteredSalesData == [k \in DOMAIN filteredPositions |-> salesData[filteredPositions[k]]]

\* salesData.indexOf(first), 0-based: first is an object of salesData, found
\* at its own position
indexOfFirst == filteredPositions[1] - 1

\* a variant whose base is always the zero object
BaseZero(series, baseIndex) == [ventes |-> 0, gratuits |-> 0, total_dollars |-> 0]
\* a variant that takes the first point of the range itself as the base
BaseAtFirst(series, baseIndex) == series[baseIndex + 1]
\* baseIndex > 0 ? salesData[baseIndex - 1] : {0, 0, 0} (baseIndex 0-based)
BaseOf(series, baseIndex) ==
    IF baseIndex > 0 THEN series[(baseIndex - 1) + 1]
    ELSE [ventes |-> 0, gratuits |-> 0, total_dollars |-> 0]

NullStats == [null |-> TRUE]
\* the two useMemo of lines 1087-1106 as a function of their dependencies
periodStatsOf(series, from, to) ==
    LET positions == filteredPositionsOf(series, from, to)
    IN IF Len(positions) < 1 THEN NullStats
       ELSE LET last == series[positions[Len(positions)]]
                base == BaseOf(series, positions[1] - 1)
            IN [ventesInPeriod |-> last.ventes - base.ventes,
                revenusInPeriod |-> last.total_dollars - base.total_dollars]

periodStats == periodStatsOf(salesData, dateFrom, dateTo)

\* the rows of two performances; those of recA alone give the sold series
\* 0, 4, 10, 10, 15 on days 1..5
PeriodRows ==
    << Row("recA", 1, [sold |-> 0, free |-> 0, total |-> 0]),
       Row("recB", 2, [sold |-> 3, free |-> NoValue, total |-> 30]),
       Row("recA", 2, [sold |-> 4, free |-> 1, total |-> 40]),
       Row("recA", 3, [sold |-> 10, free |-> 1, total |-> 100]),
       Row("recB", 4, [sold |-> 5, free |-> 2, total |-> 50]),
       Row("recA", 5, [sold |-> 15, free |-> 2, total |-> 150]) >>

RECURSIVE SubSeqs(_)
SubSeqs(q) ==
    IF q = <<>> THEN {<<>>}
    ELSE LET rest == SubSeqs(Tail(q))
         IN rest \cup {<<Head(q)>> \o x : x \in rest}

\* the page after a committed fetch of the selection
InitPeriod ==
    /\ GridIdle
    /\ MapIdle
    /\ timeZone \in TimeZones
    /\ representations = <<"recA", "recB">>
    /\ supabaseUrl = "url"
    /\ supabaseAnonKey = "key"
    /\ selectedRepId \in {"", "recA"}
    /\ \E source \in SubSeqs(PeriodRows) :
          LET InSelection(row) == \E k \in DOMAIN filterIds : row.record_id = filterIds[k]
          IN rcRows = SelectSeq(source, InSelection)
    /\ rcMode = IF isAllMode THEN "all" ELSE "single"
    /\ rcOut = Reconstruct(isAllMode, rcRows, timeZone)
    /\ salesData = rcOut
    /\ loading = FALSE
    /\ error = NoError
    /\ showAll = FALSE
    /\ dateFrom = EmptyDate
    /\ dateTo = EmptyDate
    /\ cacheRef = <<>>
    /\ effectDue = FALSE
    /\ reqs = <<>>
    /\ calls = 0

periodUnchanged == <<timeZone, showAll, representations, supabaseUrl, supabaseAnonKey,
                     selectedRepId, salesData, loading, error, cacheRef, effectDue,
                     reqs, calls, reconVars, gridVars, mapVars>>

\* onChange of the two date inputs
SetDateFrom(value) ==
    /\ dateFrom' = value
    /\ UNCHANGED <<dateTo, periodUnchanged>>

SetDateTo(value) ==
    /\ dateTo' = value
    /\ UNCHANGED <<dateFrom, periodUnchanged>>

\* setPreset: 'all' empties both dates; 'ytd' and a number of months set
\* dateFrom to a day computed from the clock and empty dateTo
setPreset(from) ==
    /\ dateFrom' = from
    /\ dateTo' = EmptyDate
    /\ UNCHANGED periodUnchanged

NextPeriod ==
    \/ \E value \in PeriodDays \cup {EmptyDate} : SetDateFrom(value)
    \/ \E value \in PeriodDays \cup {EmptyDate} : SetDateTo(value)
    \/ \E from \in PeriodDays \cup {EmptyDate} : setPreset(from)

SpecPeriod == InitPeriod /\ [][NextPeriod]_vars

\* ------------------------------------------------------------------------
\* Properties of the period statistics (checked under SpecPeriod)
\* ------------------------------------------------------------------------
InRange == {i \in DOMAIN salesData :
              /\ dateFrom = EmptyDate \/ salesData[i].date >= dateFrom
              /\ dateTo = EmptyDate \/ salesData[i].date <= dateTo}

\* C10: when the date range selects at least one point, the period
\* statistic is the cumulative value of the last point in the range minus
\* the cumulative value of the point of the series just before the first
\* point in the range, or minus 0 when the range starts with the first point
\* of the series; for tickets sold and for revenue alike.
PeriodDelta ==
    InRange # {} =>
        LET firstIn == SetMin(InRange)
            lastIn == SetMax(InRange)
            soldBefore == IF firstIn = 1 THEN 0 ELSE salesData[firstIn - 1].ventes
            revenueBefore == IF firstIn = 1 THEN 0
                             ELSE salesData[firstIn - 1].total_dollars
        IN /\ periodStats # NullStats
           /\ periodStats.ventesInPeriod = salesData[lastIn].ventes - soldBefore
           /\ periodStats.revenusInPeriod =
                 salesData[lastIn].total_dollars - revenueBefore

\* sold 0, 4, 10, 10, 15 on days 1..5 with the range of days 3..5: 15 - 4
PeriodDeltaWitness ==
    /\ [i \in DOMAIN salesData |-> salesData[i].ventes] = <<0, 4, 10, 10, 15>>
    /\ [i \in DOMAIN salesData |-> salesData[i].date] = <<1, 2, 3, 4, 5>>
    /\ dateFrom = 3
    /\ dateTo = 5
    /\ periodStats.ventesInPeriod = 11

\* ------------------------------------------------------------------------
\* The routing grid (RoutageApp): dates of the weeks
\* ------------------------------------------------------------------------
BLOC_ORDER == <<"am", "pm", "soir", "nuit">>
DAY_CODES == <<"D", "L", "Ma", "Me", "J", "V", "S">>
ALERT_THRESHOLD == 5

\* The value of a cell of a date field (getCellValue): null, the string
\* 'YYYY-MM-DD' of a date field, or the string 'YYYY-MM-DDThh:mm:ss.sssZ' of
\* a date-and-time field (isDateField allows DATE, DATE_TIME and FORMULA).
NoDateCell == [kind |-> "null", y |-> 0, m |-> 0, d |-> 0]
DateCell(y, m, d) == [kind |-> "date", y |-> y, m |-> m, d |-> d]
DateTimeCell(y, m, d) == [kind |-> "datetime", y |-> y, m |-> m, d |-> d]

\* What parseAirtableDate returns: null, an Invalid Date, or the local
\* midnight of a day.
NullDateObject == [kind |-> "null", y |-> 0, m |-> 0, d |-> 0]
InvalidDateObject == [kind |-> "invalid", y |-> 0, m |-> 0, d |-> 0]

IsLeap(y) == (y % 4 = 0 /\ y % 100 # 0) \/ y % 400 = 0
DaysInMonth(y, m) ==
    IF m = 2 THEN (IF IsLeap(y) THEN 29 ELSE 28)
    ELSE IF m \in {4, 6, 9, 11} THEN 30 ELSE 31

\* new Date(year, monthIndex, day) and setDate(day): a day past the end of
\* the month rolls over into the next months
RECURSIVE LocalDate(_, _, _)
LocalDate(y, m, d) ==
    IF d > DaysInMonth(y, m)
    THEN (IF m = 12 THEN LocalDate(y + 1, 1, d - DaysInMonth(y, m))
          ELSE LocalDate(y, m + 1, d - DaysInMonth(y, m)))
    ELSE [kind |-> "date", y |-> y, m |-> m, d |-> d]

\* str.split('-').map(Number): the third part of a date-and-time string,
\* 'DDThh:mm:ss.sssZ', is NaN, and new Date(year, month - 1, NaN) is invalid
parseAirtableDate(cell) ==
    IF cell.kind = "null" THEN NullDateObject
    ELSE IF cell.kind = "datetime" THEN InvalidDateObject
    ELSE LocalDate(cell.y, cell.m, cell.d)

\* getTime(), in days since the first day of FirstYear
FirstYear == 2023
RECURSIVE DaysBeforeYear(_)
DaysBeforeYear(y) ==
    IF y <= FirstYear THEN 0
    ELSE DaysBeforeYear(y - 1) + (IF IsLeap(y - 1) THEN 366 ELSE 365)
RECURSIVE DaysBeforeMonth(_, _)
DaysBeforeMonth(y, m) ==
    IF m <= 1 THEN 0 ELSE DaysBeforeMonth(y, m - 1) + DaysInMonth(y, m - 1)
getTime(date) == DaysBeforeYear(date.y) + DaysBeforeMonth(date.y, date.m) + date.d

NoDay == 0         \* null in the array of day numbers
NaNDay == -1       \* NaN in the array of day numbers

\* const d = new Date(start); d.setDate(d.getDate() + index); d.getDate()
DayOfOffset(start, index) == LocalDate(start.y, start.m, start.d + index).d

computeDayNumbers(dateDebut) ==
    IF dateDebut.kind = "null" THEN [i \in DOMAIN DAY_CODES |-> NoDay]
    ELSE IF dateDebut.kind = "invalid" THEN [i \in DOMAIN DAY_CODES |-> NaNDay]
    ELSE [i \in DOMAIN DAY_CODES |-> DayOfOffset(dateDebut, i - 1)]

\* ------------------------------------------------------------------------
\* The routing grid: the sort of the week groups
\* ------------------------------------------------------------------------
\* (a, b) => { if (!a.dateDebut) return 1; if (!b.dateDebut) return -1;
\*             return a.dateDebut.getTime() - b.dateDebut.getTime(); }
\* An Invalid Date is an object (truthy) whose getTime() is NaN; the sort
\* takes a NaN of the comparator for +0.
compareWeeks(a, b) ==
    IF a.dateDebut.kind = "null" THEN 1
    ELSE IF b.dateDebut.kind = "null" THEN 0 - 1
    ELSE IF a.dateDebut.kind = "invalid" \/ b.dateDebut.kind = "invalid" THEN 0
    ELSE getTime(a.dateDebut) - getTime(b.dateDebut)

\* the element at position from moved to position to (to <= from)
Move(work, from, to) ==
    SubSeq(work, 1, to - 1) \o <<work[from]>> \o SubSeq(work, to, from - 1)
    \o SubSeq(work, from + 1, Len(work))
Reverse(q) == [i \in DOMAIN q |-> q[Len(q) + 1 - i]]

\* Array.prototype.sort is the engine's: with a comparator that is not a
\* consistent order the result is implementation-defined. Two engines:
\* "v8": an initial run (reversed when strictly descending), then binary
\*   insertion asking comparefn(pivot, element);
\* "spidermonkey": insertion from the right asking comparefn(element, item).
SortEngines == {"v8", "spidermonkey"}

RECURSIVE RunLength(_, _, _)
RunLength(work, descending, idx) ==
    IF idx > Len(work) THEN idx - 1
    ELSE LET order == compareWeeks(work[idx], work[idx - 1])
         IN IF descending /\ order >= 0 THEN idx - 1
            ELSE IF ~descending /\ order < 0 THEN idx - 1
            ELSE RunLength(work, descending, idx + 1)

RECURSIVE BinarySearch(_, _, _, _)
BinarySearch(work, pivot, left, right) ==
    IF left >= right THEN left
    ELSE LET mid == left + ((right - left) \div 2)
         IN IF compareWeeks(pivot, work[mid + 1]) < 0
            THEN BinarySearch(work, pivot, left, mid)
            ELSE BinarySearch(work, pivot, mid + 1, right)

RECURSIVE BinaryInsertionSort(_, _)
BinaryInsertionSort(work, start) ==
    IF start >= Len(work) THEN work
    ELSE LET pos == BinarySearch(work, work[start + 1], 0, start)
         IN BinaryInsertionSort(Move(work, start + 1, pos + 1), start + 1)

SortV8(work) ==
    IF Len(work) < 2 THEN work
    ELSE LET descending == compareWeeks(work[2], work[1]) < 0
             run == RunLength(work, descending, 3)
             made == IF descending
                     THEN Reverse(SubSeq(work, 1, run)) \o SubSeq(work, run + 1, Len(work))
                     ELSE work
         IN BinaryInsertionSort(made, run)

RECURSIVE InsertionPoint(_, _, _)
InsertionPoint(work, item, j) ==
    IF j < 1 THEN 0
    ELSE IF compareWeeks(work[j], item) <= 0 THEN j
    ELSE InsertionPoint(work, item, j - 1)

RECURSIVE LinearInsertionSort(_, _)
LinearInsertionSort(work, i) ==
    IF i > Len(work) THEN work
    ELSE LET pos == InsertionPoint(work, work[i], i - 1)
         IN LinearInsertionSort(Move(work, i, pos + 1), i + 1)

SortWeeks(groups, engine) ==
    IF engine = "v8" THEN SortV8(groups) ELSE LinearInsertionSort(groups, 2)

\* ------------------------------------------------------------------------
\* The routing grid: the grid builder (sortedWeeks)
\* ------------------------------------------------------------------------
\* A cell of a link field or of a multiple select is the list of its items;
\* the empty list stands for null (the value of an empty cell).
AllIds == "__all__"

\* weeksMap / blocsMap: record id -> what the builder keeps of the record
weeksMap ==
    [id \in {weekRecords[i].id : i \in DOMAIN weekRecords} |->
        LET wr == weekRecords[CHOOSE i \in DOMAIN weekRecords : weekRecords[i].id = id]
        IN [name |-> wr.name, dateDebut |-> parseAirtableDate(wr.dateDebut)]]
blocsMap ==
    [id \in {blocRecords[i].id : i \in DOMAIN blocRecords} |->
        blocRecords[CHOOSE i \in DOMAIN blocRecords : blocRecords[i].id = id].name]

\* a variant in which the site filter lets every event through
SiteOkAlways(event) == TRUE
\* the site filter: the event goes on unless a site is selected and the
\* event does not link it
SiteOk(event) ==
    \/ selectedSiteId = AllIds
    \/ \E k \in DOMAIN event.sites : event.sites[k] = selectedSiteId
\* the canal filter
CanalOk(event) ==
    \/ selectedCanalId = AllIds
    \/ \E k \in DOMAIN event.canals : event.canals[k] = selectedCanalId

\* blocNames: the names of the linked blocs found in blocsMap
ResolvedBlocs(event) ==
    {blocsMap[event.blocs[k]] :
        k \in {j \in DOMAIN event.blocs : event.blocs[j] \in DOMAIN blocsMap}}

EventRow(event) ==
    [eventName |-> event.name, eventId |-> event.id,
     activeDays |-> Range(event.jours), blocNames |-> ResolvedBlocs(event)]

\* gridData.get(weekId).events.push(row), the group made at its first row
PushRow(grid, weekId, row) ==
    IF \E g \in DOMAIN grid : grid[g].weekId = weekId
    THEN [g \in DOMAIN grid |->
            IF grid[g].weekId = weekId
            THEN [grid[g] EXCEPT !.events = Append(@, row)]
            ELSE grid[g]]
    ELSE Append(grid, [weekId |-> weekId, weekName |-> weeksMap[weekId].name,
                       dateDebut |-> weeksMap[weekId].dateDebut, events |-> <<row>>])

\* for (const weekLink of linkedWeeks), from the k-th link on
RECURSIVE PushLinks(_, _, _)
PushLinks(grid, event, k) ==
    IF k > Len(event.weeks) THEN grid
    ELSE LET id == event.weeks[k]
         IN IF (selectedWeekId # AllIds /\ id # selectedWeekId)
               \/ id \notin DOMAIN weeksMap
            THEN PushLinks(grid, event, k + 1)
            ELSE PushLinks(PushRow(grid, id, EventRow(event)), event, k + 1)

\* for (const event of eventRecords), from the i-th event on
RECURSIVE ProcessEvents(_, _, _)
ProcessEvents(records, grid, i) ==
    IF i > Len(records) THEN grid
    ELSE LET event == records[i]
         IN IF ~SiteOk(event) THEN ProcessEvents(records, grid, i + 1)
            ELSE IF ~CanalOk(event) THEN ProcessEvents(records, grid, i + 1)
            ELSE IF event.weeks = <<>> THEN ProcessEvents(records, grid, i + 1)
            ELSE IF event.blocs = <<>> THEN ProcessEvents(records, grid, i + 1)
            ELSE ProcessEvents(records, PushLinks(grid, event, 1), i + 1)

\* the useMemo of sortedWeeks, for the event records given
sortedWeeksOf(records) == SortWeeks(ProcessEvents(records, <<>>, 1), sortEngine)
gridData == ProcessEvents(eventRecords, <<>>, 1)
sortedWeeks == sortedWeeksOf(eventRecords)

\* a variant that counts a row of the bloc whatever its days
RECURSIVE CountRowsAnyDay(_, _, _)
CountRowsAnyDay(events, bloc, dayCode) ==
    IF events = <<>> THEN 0
    ELSE (IF bloc \in Head(events).blocNames THEN 1 ELSE 0)
         + CountRowsAnyDay(Tail(events), bloc, dayCode)

\* count++ for every row in the bloc and active on the day
RECURSIVE CountRows(_, _, _)
CountRows(events, bloc, dayCode) ==
    IF events = <<>> THEN 0
    ELSE (IF bloc \in Head(events).blocNames /\ dayCode \in Head(events).activeDays
          THEN 1 ELSE 0) + CountRows(Tail(events), bloc, dayCode)

\* totals[bloc][dayIdx] of a week group
totals(weekData) ==
    [bloc \in Range(BLOC_ORDER) |->
        [i \in DOMAIN DAY_CODES |-> CountRows(weekData.events, bloc, DAY_CODES[i])]]

\* a variant that flags a cell from the threshold on
overLimitFromThreshold(count) == count >= ALERT_THRESHOLD
\* const overLimit = count > ALERT_THRESHOLD
overLimit(count) == count > ALERT_THRESHOLD
\* {count || ''}
TotalCellText(count) == IF count = 0 THEN "" ELSE ToString(count)

\* ------------------------------------------------------------------------
\* The routing grid, cross-product layout (routage/frontend/index.js)
\* ------------------------------------------------------------------------
\* weekEntry.blocs.get(blocName).events.push(row), the entry of the bloc
\* made at its first row
PushCell(blocs, blocName, row) ==
    IF \E c \in DOMAIN blocs : blocs[c].blocName = blocName
    THEN [c \in DOMAIN blocs |->
            IF blocs[c].blocName = blocName
            THEN [blocs[c] EXCEPT !.events = Append(@, row)]
            ELSE blocs[c]]
    ELSE Append(blocs, [blocName |-> blocName, events |-> <<row>>])

\* for (const blocLink of linkedBlocs), from the k-th link on
RECURSIVE PushBlocs(_, _, _)
PushBlocs(blocs, event, k) ==
    IF k > Len(event.blocs) THEN blocs
    ELSE IF event.blocs[k] \notin DOMAIN blocsMap THEN PushBlocs(blocs, event, k + 1)
    ELSE PushBlocs(PushCell(blocs, blocsMap[event.blocs[k]],
                            [eventName |-> event.name,
                             activeDays |-> Range(event.jours)]),
                   event, k + 1)

\* the week entry, made when the first event that links the week is met
WithWeek(grid, weekId) ==
    IF \E g \in DOMAIN grid : grid[g].weekId = weekId THEN grid
    ELSE Append(grid, [weekId |-> weekId, weekName |-> weeksMap[weekId].name,
                       dateDebut |-> weeksMap[weekId].dateDebut, blocs |-> <<>>])

RECURSIVE CrossLinks(_, _, _)
CrossLinks(grid, event, k) ==
    IF k > Len(event.weeks) THEN grid
    ELSE LET id == event.weeks[k]
             made == WithWeek(grid, id)
         IN IF id \notin DOMAIN weeksMap THEN CrossLinks(grid, event, k + 1)
            ELSE CrossLinks([g \in DOMAIN made |->
                               IF made[g].weekId = id
                               THEN [made[g] EXCEPT !.blocs = PushBlocs(@, event, 1)]
                               ELSE made[g]],
                            event, k + 1)

RECURSIVE CrossEvents(_, _)
CrossEvents(grid, i) ==
    IF i > Len(eventRecords) THEN grid
    ELSE LET event == eventRecords[i]
         IN IF event.weeks = <<>> THEN CrossEvents(grid, i + 1)
            ELSE IF event.blocs = <<>> THEN CrossEvents(grid, i + 1)
            ELSE CrossEvents(CrossLinks(grid, event, 1), i + 1)

crossGridData == CrossEvents(<<>>, 1)
crossSortedWeeks == SortWeeks(crossGridData, sortEngine)

\* ------------------------------------------------------------------------
\* The routing grid: records, filters and edits
\* ------------------------------------------------------------------------
MaxEdits == 2      \* edits of the event records in a behaviour
MaxWeeks == 3      \* week records of an enumerated weeks table

Event(id, weeks, blocs, jours, sites, canals) ==
    [id |-> id, name |-> id, weeks |-> weeks, blocs |-> blocs, jours |-> jours,
     sites |-> sites, canals |-> canals]
Week(id, cell) == [id |-> id, name |-> id, dateDebut |-> cell]
Bloc(id, name) == [id |-> id, name |-> name]

\* b1 and b3 bear the same name; b4 is not a bloc of BLOC_ORDER; b9 and w3
\* are linked by events but are not records of the tables
BlocTable == <<Bloc("b1", "am"), Bloc("b2", "pm"), Bloc("b3", "am"), Bloc("b4", "matin")>>
WeekTables ==
    { <<Week("w1", DateCell(2024, 1, 8)), Week("w2", DateCell(2024, 1, 1))>>,
      <<Week("w1", NoDateCell), Week("w2", DateCell(2024, 1, 1))>> }

\* six events in the same cell (w1, am, D), five of them also on L
Crowd ==
    << Event("e1", <<"w1">>, <<"b1">>, <<"D", "L">>, <<"s1">>, <<"c1">>),
       Event("e2", <<"w1">>, <<"b1">>, <<"D", "L">>, <<"s1">>, <<"c1">>),
       Event("e3", <<"w1">>, <<"b3">>, <<"D", "L">>, <<"s1">>, <<"c2">>),
       Event("e4", <<"w1">>, <<"b1">>, <<"D", "L">>, <<"s2">>, <<"c1">>),
       Event("e5", <<"w1", "w2">>, <<"b1", "b3">>, <<"D", "L">>, <<"s1", "s2">>, <<"c1">>),
       Event("e6", <<"w1">>, <<"b1">>, <<"D">>, <<"s1">>, <<"c1", "c2">>) >>
\* events with several links, with links to records that are not there, and
\* with empty cells
Mixed ==
    << Event("e1", <<"w1", "w2">>, <<"b1", "b2">>, <<"D", "L">>, <<"s1">>, <<"c1", "c2">>),
       Event("e2", <<"w2", "w3">>, <<"b9">>, <<"D">>, <<"s1", "s2">>, <<"c1">>),
       Event("e3", <<"w3">>, <<"b1">>, <<"L">>, <<"s1">>, <<"c1">>),
       Event("e4", <<"w1">>, <<>>, <<"D">>, <<"s2">>, <<"c2">>),
       Event("e5", <<"w2">>, <<"b4", "b2">>, <<>>, <<>>, <<>>),
       Event("e6", <<"w2">>, <<"b3", "b1">>, <<"S">>, <<"s2">>, <<"c1">>) >>
EventTables == {Crowd, Mixed}

Sites == {"s1", "s2"}
Canals == {"c1", "c2"}
WeekIds == {"w1", "w2", "w3"}

PageIdle ==
    /\ timeZone = UTC
    /\ representations = <<>>
    /\ supabaseUrl = "url"
    /\ supabaseAnonKey = "key"
    /\ selectedRepId = ""
    /\ salesData = <<>>
    /\ loading = FALSE
    /\ error = NoError
    /\ showAll = FALSE
    /\ dateFrom = EmptyDate
    /\ dateTo = EmptyDate
    /\ cacheRef = <<>>
    /\ effectDue = FALSE
    /\ reqs = <<>>
    /\ calls = 0
    /\ rcRows = <<>>
    /\ rcMode = "none"
    /\ rcOut = <<>>

InitGrid ==
    /\ PageIdle
    /\ MapIdle
    /\ sortEngine \in SortEngines
    /\ eventRecords \in EventTables
    /\ weekRecords \in WeekTables
    /\ blocRecords = BlocTable
    /\ selectedSiteId = AllIds
    /\ selectedWeekId = AllIds
    /\ selectedCanalId = AllIds
    /\ edits = 0

\* onChange of the three selects
SetSelectedSiteId(value) ==
    /\ selectedSiteId' = value
    /\ UNCHANGED <<timeZone, pageVars, reconVars, mapVars, sortEngine, eventRecords, weekRecords,
                   blocRecords, selectedWeekId, selectedCanalId, edits>>
SetSelectedWeekId(value) ==
    /\ selectedWeekId' = value
    /\ UNCHANGED <<timeZone, pageVars, reconVars, mapVars, sortEngine, eventRecords, weekRecords,
                   blocRecords, selectedSiteId, selectedCanalId, edits>>
SetSelectedCanalId(value) ==
    /\ selectedCanalId' = value
    /\ UNCHANGED <<timeZone, pageVars, reconVars, mapVars, sortEngine, eventRecords, weekRecords,
                   blocRecords, selectedSiteId, selectedWeekId, edits>>

\* useRecords(eventsTable) delivers an edit of an event made in the base: a
\* link or a day removed from a cell (the cell is null once it is empty)
EditEvent(i, field, k) ==
    /\ edits < MaxEdits
    /\ k \in DOMAIN eventRecords[i][field]
    /\ eventRecords' = [eventRecords EXCEPT ![i][field] = Without(@, k)]
    /\ edits' = edits + 1
    /\ UNCHANGED <<timeZone, pageVars, reconVars, mapVars, sortEngine, weekRecords, blocRecords,
                   selectedSiteId, selectedWeekId, selectedCanalId>>
UnlinkWeek(i, k) == EditEvent(i, "weeks", k)
UnlinkBloc(i, k) == EditEvent(i, "blocs", k)
UnselectDay(i, k) == EditEvent(i, "jours", k)

NextGrid ==
    \/ \E value \in Sites \cup {AllIds} : SetSelectedSiteId(value)
    \/ \E value \in {"w1", "w2"} \cup {AllIds} : SetSelectedWeekId(value)
    \/ \E value \in Canals \cup {AllIds} : SetSelectedCanalId(value)
    \/ \E i \in DOMAIN eventRecords, k \in 1..2 : UnlinkWeek(i, k)
    \/ \E i \in DOMAIN eventRecords, k \in 1..2 : UnlinkBloc(i, k)
    \/ \E i \in DOMAIN eventRecords, k \in 1..2 : UnselectDay(i, k)

SpecGrid == InitGrid /\ [][NextGrid]_vars

\* ------------------------------------------------------------------------
\* The weeks of the routing grid alone: every weeks table of at most
\* MaxWeeks records, each linked by one event
\* ------------------------------------------------------------------------
StartCells == {NoDateCell, DateCell(2024, 1, 1), DateCell(2024, 1, 7), DateCell(2024, 1, 8),
               DateCell(2024, 2, 26), DateCell(2023, 12, 28),
               DateTimeCell(2024, 1, 7)}
WeekNames == <<"w1", "w2", "w3", "w4", "w5">>
WeeksOf(cells) == [i \in DOMAIN cells |-> Week(WeekNames[i], cells[i])]
\* one event per week, in the order of the table
EventsOf(weeks) ==
    [i \in DOMAIN weeks |->
        Event(weeks[i].id, <<weeks[i].id>>, <<"b1">>, <<"D">>, <<"s1">>, <<"c1">>)]

InitWeeks ==
    /\ PageIdle
    /\ MapIdle
    /\ sortEngine \in SortEngines
    /\ \E cells \in SeqsUpTo(StartCells, MaxWeeks) :
          /\ weekRecords = WeeksOf(cells)
          /\ eventRecords = EventsOf(weekRecords)
    /\ blocRecords = BlocTable
    /\ selectedSiteId = AllIds
    /\ selectedWeekId = AllIds
    /\ selectedCanalId = AllIds
    /\ edits = 0

NextWeeks ==
    \E value \in {"w1", "w2"} \cup {AllIds} : SetSelectedWeekId(value)

SpecWeeks == InitWeeks /\ [][NextWeeks]_vars

\* ------------------------------------------------------------------------
\* Properties of the grid (checked under SpecGrid)
\* ------------------------------------------------------------------------
RecordIds(records) == {records[i].id : i \in DOMAIN records}
\* the totals shown for week W in the grid sw; no group of W, no count
TotalsIn(sw, W) ==
    IF \E g \in DOMAIN sw : sw[g].weekId = W
    THEN totals(sw[CHOOSE g \in DOMAIN sw : sw[g].weekId = W])
    ELSE [B \in Range(BLOC_ORDER) |-> [i \in DOMAIN DAY_CODES |-> 0]]
TotalIn(sw, W, B, i) == TotalsIn(sw, W)[B][i]
TotalOf(W, B, i) == TotalIn(sortedWeeks, W, B, i)
\* the rows of a grid, each with the week of its group
RowSet(grid) ==
    UNION {{[weekId |-> grid[g].weekId, row |-> grid[g].events[r]] :
              r \in DOMAIN grid[g].events} : g \in DOMAIN grid}
\* the events counted in the cell, among the rows of a grid
RowsIn(rows, W, B, i) ==
    {x.row.eventId :
        x \in {y \in rows : /\ y.weekId = W
                            /\ B \in y.row.blocNames
                            /\ DAY_CODES[i] \in y.row.activeDays}}
\* the events that pass the active filters for week W
PassesFilters(e, W) ==
    /\ selectedSiteId = AllIds \/ selectedSiteId \in Range(e.sites)
    /\ selectedCanalId = AllIds \/ selectedCanalId \in Range(e.canals)
    /\ selectedWeekId = AllIds \/ selectedWeekId = W
LinksBlocNamed(e, B) ==
    \E b \in Range(e.blocs) : \E k \in DOMAIN blocRecords :
        blocRecords[k].id = b /\ blocRecords[k].name = B
Contributors(W, B, i) ==
    {k \in DOMAIN eventRecords :
        /\ PassesFilters(eventRecords[k], W)
        /\ W \in Range(eventRecords[k].weeks)
        /\ LinksBlocNamed(eventRecords[k], B)
        /\ DAY_CODES[i] \in Range(eventRecords[k].jours)}

\* C15: the total of cell (W, B, D), for a week W of the weeks table, a bloc
\* B of BLOC_ORDER and a day code D, is the number of events that pass the
\* active filters, link W, link a bloc named B and have D among their days;
\* there is one group per week at most and none for a week that is not in
\* the table; and an edit that removes a link or a day of an event E leaves
\* the contribution of every other event to every cell as it was and adds
\* none.
JoinCorrect ==
    /\ [](\A sw \in {sortedWeeks} : \A rows \in {RowSet(sw)} :
             /\ \A W \in RecordIds(weekRecords) : \A t \in {TotalsIn(sw, W)} :
                   \A B \in Range(BLOC_ORDER), i \in DOMAIN DAY_CODES :
                      \A counted \in {Contributors(W, B, i)} :
                         /\ t[B][i] = Cardinality(counted)
                         /\ RowsIn(rows, W, B, i) = {eventRecords[k].id : k \in counted}
             /\ \A g, h \in DOMAIN sw :
                   /\ sw[g].weekId \in RecordIds(weekRecords)
                   /\ sw[g].weekId = sw[h].weekId => g = h)
    /\ [][eventRecords' # eventRecords
           /\ UNCHANGED <<weekRecords, blocRecords, selectedSiteId, selectedWeekId,
                          selectedCanalId, sortEngine>> =>
            \A sw \in {sortedWeeks}, swNext \in {sortedWeeksOf(eventRecords')},
               edited \in {{eventRecords[k].id :
                              k \in {j \in DOMAIN eventRecords :
                                       eventRecords'[j] # eventRecords[j]}}} :
               \A rows \in {RowSet(sw)}, rowsNext \in {RowSet(swNext)} :
                  /\ Cardinality(edited) = 1
                  /\ \A W \in RecordIds(weekRecords) :
                        \A t \in {TotalsIn(sw, W)}, tNext \in {TotalsIn(swNext, W)} :
                           \A B \in Range(BLOC_ORDER), i \in DOMAIN DAY_CODES :
                              \A before \in {RowsIn(rows, W, B, i)},
                                 after \in {RowsIn(rowsNext, W, B, i)} :
                                 /\ after \subseteq before
                                 /\ before \ after \subseteq edited
                                 /\ tNext[B][i] = t[B][i] - Cardinality(before \ after)]_vars

\* a link of an event was removed, a site is selected, and a cell still
\* counts two events while a third event that links the week is left out
JoinCorrectWitness ==
    /\ edits > 0
    /\ selectedSiteId # AllIds
    /\ \E W \in RecordIds(weekRecords), B \in Range(BLOC_ORDER), i \in DOMAIN DAY_CODES :
          /\ TotalOf(W, B, i) >= 2
          /\ TotalOf(W, B, i) = Cardinality(Contributors(W, B, i))
          /\ \E k \in DOMAIN eventRecords :
                /\ W \in Range(eventRecords[k].weeks)
                /\ k \notin Contributors(W, B, i)

LinkedToSelection(e) ==
    /\ selectedSiteId # AllIds => selectedSiteId \in Range(e.sites)
    /\ selectedCanalId # AllIds => selectedCanalId \in Range(e.canals)
\* the events with a row in the grid
EventsInGrid == {x.row.eventId : x \in RowSet(sortedWeeks)}

\* C16: the events that survive the site test and the canal test are the
\* same in either order of the tests: those linked to the selected site (if
\* one is selected) and to the selected canal (if one is selected); the grid
\* holds rows of these events only, and of each of them that has a week to
\* show and a bloc cell that is not empty.
FiltersCommute ==
    /\ SelectSeq(SelectSeq(eventRecords, SiteOk), CanalOk)
         = SelectSeq(SelectSeq(eventRecords, CanalOk), SiteOk)
    /\ SelectSeq(SelectSeq(eventRecords, SiteOk), CanalOk)
         = SelectSeq(eventRecords, LinkedToSelection)
    /\ selectedSiteId = AllIds => SelectSeq(eventRecords, SiteOk) = eventRecords
    /\ selectedCanalId = AllIds => SelectSeq(eventRecords, CanalOk) = eventRecords
    /\ EventsInGrid
         = {eventRecords[k].id :
              k \in {j \in DOMAIN eventRecords :
                       /\ LinkedToSelection(eventRecords[j])
                       /\ eventRecords[j].blocs # <<>>
                       /\ \E W \in Range(eventRecords[j].weeks) :
                             /\ W \in RecordIds(weekRecords)
                             /\ selectedWeekId = AllIds \/ selectedWeekId = W}}

\* both filters are set: an event fails the site test only, another the
\* canal test only, and the grid shows the others
FiltersCommuteWitness ==
    /\ selectedSiteId # AllIds
    /\ selectedCanalId # AllIds
    /\ \E k \in DOMAIN eventRecords : SiteOk(eventRecords[k]) /\ ~CanalOk(eventRecords[k])
    /\ \E k \in DOMAIN eventRecords : ~SiteOk(eventRecords[k]) /\ CanalOk(eventRecords[k])
    /\ Cardinality(EventsInGrid) >= 2
    /\ EventsInGrid = {e.id : e \in {x \in Range(eventRecords) : LinkedToSelection(x)}}

\* C19: a cell of the totals row is flagged exactly when its count is
\* greater than 5 (5 is not flagged, 6 is), and it shows the count, or
\* nothing when the count is 0.
ThresholdAlert ==
    \A sw \in {sortedWeeks} : \A g \in DOMAIN sw : \A t \in {totals(sw[g])} :
        \A B \in Range(BLOC_ORDER), i \in DOMAIN DAY_CODES :
            \A count \in {t[B][i]} :
                /\ overLimit(count) <=> count >= 6
                /\ count = 5 => ~overLimit(count)
                /\ TotalCellText(count) = "" <=> count = 0
                /\ count # 0 => TotalCellText(count) = ToString(count)

\* a week with a cell of 6 events, flagged, a cell of 5 events, not flagged,
\* and an empty cell
ThresholdAlertWitness ==
    \E sw \in {sortedWeeks} : \E g \in DOMAIN sw : \E t \in {totals(sw[g])} :
        \E B \in Range(BLOC_ORDER), i, j, k \in DOMAIN DAY_CODES :
            /\ t[B][i] = 6 /\ overLimit(t[B][i])
            /\ t[B][j] = 5 /\ ~overLimit(t[B][j])
            /\ t[B][k] = 0 /\ TotalCellText(t[B][k]) = ""

\* the rows of the cross-product grid, each with its week and its bloc
CrossRowSet(grid) ==
    UNION {UNION {{[weekId |-> grid[g].weekId, blocName |-> grid[g].blocs[c].blocName,
                    row |-> grid[g].blocs[c].events[r]] :
                     r \in DOMAIN grid[g].blocs[c].events} :
                  c \in DOMAIN grid[g].blocs} : g \in DOMAIN grid}
ResolvableWeeks(e) == Range(e.weeks) \cap RecordIds(weekRecords)
ResolvableBlocs(e) == Range(e.blocs) \cap RecordIds(blocRecords)

\* C20 (as claimed): every event row of the grid is in a week of the weeks
\* table and has at least one resolved bloc, in both layouts; an event
\* without a week link or without a bloc link that resolves has no row in
\* any week.
RenderedRows ==
    /\ \A x \in RowSet(sortedWeeks) :
          /\ x.weekId \in RecordIds(weekRecords)
          /\ x.row.blocNames # {}
    /\ \A x \in CrossRowSet(crossSortedWeeks) :
          /\ x.weekId \in RecordIds(weekRecords)
          /\ \E k \in DOMAIN blocRecords : blocRecords[k].name = x.blocName
    /\ \A k \in DOMAIN eventRecords :
          ResolvableWeeks(eventRecords[k]) = {} \/ ResolvableBlocs(eventRecords[k]) = {}
             => /\ eventRecords[k].id \notin EventsInGrid
                /\ \A x \in CrossRowSet(crossSortedWeeks) :
                      x.row.eventName # eventRecords[k].name

\* ------------------------------------------------------------------------
\* Properties of the weeks (checked under SpecWeeks)
\* ------------------------------------------------------------------------
\* the position of the group of a week in the encounter order
Encounter(weekId) == CHOOSE g \in DOMAIN gridData : gridData[g].weekId = weekId
Undated(group) == group.dateDebut.kind = "null"
SameKey(a, b) ==
    \/ Undated(a) /\ Undated(b)
    \/ ~Undated(a) /\ ~Undated(b) /\ getTime(a.dateDebut) = getTime(b.dateDebut)
Sign(n) == IF n < 0 THEN 0 - 1 ELSE IF n > 0 THEN 1 ELSE 0

\* C17 (as claimed): when every start date is empty or a date, the week
\* groups come out in ascending order of start date, the groups without a
\* start date after all the others, groups with equal keys in their
\* encounter order; and the comparator orders every pair of groups
\* consistently (compare(a, b) and compare(b, a) have opposite signs).
WeekSort ==
    (\A k \in DOMAIN weekRecords : weekRecords[k].dateDebut.kind # "datetime") =>
        \A sw \in {sortedWeeks} :
            /\ \A g, h \in DOMAIN sw :
                  g < h =>
                     /\ ~(Undated(sw[g]) /\ ~Undated(sw[h]))
                     /\ ~Undated(sw[g]) /\ ~Undated(sw[h])
                           => getTime(sw[g].dateDebut) <= getTime(sw[h].dateDebut)
                     /\ SameKey(sw[g], sw[h])
                           => Encounter(sw[g].weekId) < Encounter(sw[h].weekId)
            /\ \A g, h \in DOMAIN sw :
                  g # h => Sign(compareWeeks(sw[g], sw[h]))
                              = 0 - Sign(compareWeeks(sw[h], sw[g]))

\* the day of the month of the n-th day since the first day of FirstYear
DayOfMonthOf(n) ==
    LET ym == CHOOSE p \in (FirstYear..(FirstYear + 2)) \X (1..12) :
                 /\ DaysBeforeYear(p[1]) + DaysBeforeMonth(p[1], p[2]) < n
                 /\ n <= DaysBeforeYear(p[1]) + DaysBeforeMonth(p[1], p[2])
                           + DaysInMonth(p[1], p[2])
    IN n - (DaysBeforeYear(ym[1]) + DaysBeforeMonth(ym[1], ym[2]))
StartCellOf(weekId) ==
    weekRecords[CHOOSE k \in DOMAIN weekRecords : weekRecords[k].id = weekId].dateDebut

\* C18 (as claimed): the day numbers of a week whose start date is s are the
\* days of the month of s, s + 1, ..., s + 6, also across the end of a
\* month; those of a week without a start date are seven empty values.
DayNumbers ==
    \A g \in DOMAIN sortedWeeks :
        \A cell \in {StartCellOf(sortedWeeks[g].weekId)},
           numbers \in {computeDayNumbers(sortedWeeks[g].dateDebut)} :
            /\ DOMAIN numbers = 1..7
            /\ cell.kind = "null" => \A i \in 1..7 : numbers[i] = NoDay
            /\ cell.kind # "null" =>
                  \A i \in 1..7 : numbers[i] = DayOfMonthOf(getTime(cell) + (i - 1))

\* ------------------------------------------------------------------------
\* The cross-product layout on display (routage/frontend/index.js)
\* ------------------------------------------------------------------------
BLOC_ORDER_CROSS == <<"AM", "PM", "SOIR", "NUIT">>
DAY_CODES_CROSS == <<"D", "L", "M", "M2", "J", "V", "S">>

\* weekData.blocs.get(bn), as the list of its events: no entry, no event
BlocEvents(weekData, bn) ==
    IF \E c \in DOMAIN weekData.blocs : weekData.blocs[c].blocName = bn
    THEN weekData.blocs[CHOOSE c \in DOMAIN weekData.blocs :
                           weekData.blocs[c].blocName = bn].events
    ELSE <<>>

\* a variant of maxEvents without the floor of one row
maxEventsNoFloor(weekData) ==
    SetMax({Len(BlocEvents(weekData, BLOC_ORDER_CROSS[b])) : b \in DOMAIN BLOC_ORDER_CROSS})

\* Math.max(1, ...BLOC_ORDER.map(bn => bd ? bd.events.length : 0))
maxEvents(weekData) ==
    SetMax({1} \cup {Len(BlocEvents(weekData, BLOC_ORDER_CROSS[b])) :
                        b \in DOMAIN BLOC_ORDER_CROSS})

\* blocData ? blocData.events[rowIdx] : null, rows counted from 1; an index
\* past the end of the list gives undefined
HasRowEvent(weekData, blocName, rowIdx) == rowIdx <= Len(BlocEvents(weekData, blocName))
\* {isActive ? 'X' : ''}
CellMark(weekData, blocName, rowIdx, dayCode) ==
    IF /\ HasRowEvent(weekData, blocName, rowIdx)
       /\ dayCode \in BlocEvents(weekData, blocName)[rowIdx].activeDays
    THEN "X" ELSE ""
\* {event ? event.eventName : ''}
CellName(weekData, blocName, rowIdx) ==
    IF HasRowEvent(weekData, blocName, rowIdx)
    THEN BlocEvents(weekData, blocName)[rowIdx].eventName
    ELSE ""

\* ------------------------------------------------------------------------
\* The cross-product layout: records and edits (the layout has no filter)
\* ------------------------------------------------------------------------
\* b1 and b3 bear the same name; b4 is not a bloc of BLOC_ORDER; b9 and w3
\* are linked by events but are not records of the tables
CrossBlocTable ==
    <<Bloc("b1", "AM"), Bloc("b2", "PM"), Bloc("b3", "AM"), Bloc("b4", "MATIN")>>
\* a week with three events in one bloc and fewer in another
Stacked ==
    << Event("e1", <<"w1", "w2">>, <<"b1", "b2">>, <<"D", "M">>, <<>>, <<>>),
       Event("e2", <<"w1">>, <<"b1">>, <<"M2">>, <<>>, <<>>),
       Event("e3", <<"w1">>, <<"b3", "b1">>, <<"L">>, <<>>, <<>>),
       Event("e4", <<"w2", "w3">>, <<"b9">>, <<"D">>, <<>>, <<>>),
       Event("e5", <<"w2">>, <<"b4">>, <<"J">>, <<>>, <<>>),
       Event("e6", <<"w1">>, <<"b2">>, <<>>, <<>>, <<>>) >>
\* weeks linked only by events without a bloc of BLOC_ORDER
Sparse ==
    << Event("e1", <<"w1">>, <<"b9">>, <<"D">>, <<>>, <<>>),
       Event("e2", <<"w2">>, <<"b4">>, <<"D">>, <<>>, <<>>),
       Event("e3", <<"w2", "w1">>, <<"b1">>, <<"S">>, <<>>, <<>>),
       Event("e4", <<>>, <<"b1">>, <<"D">>, <<>>, <<>>) >>
CrossEventTables == {Stacked, Sparse}

InitCross ==
    /\ PageIdle
    /\ MapIdle
    /\ sortEngine \in SortEngines
    /\ eventRecords \in CrossEventTables
    /\ weekRecords \in WeekTables
    /\ blocRecords = CrossBlocTable
    /\ selectedSiteId = AllIds
    /\ selectedWeekId = AllIds
    /\ selectedCanalId = AllIds
    /\ edits = 0

NextCross ==
    \/ \E i \in DOMAIN eventRecords, k \in 1..2 : UnlinkWeek(i, k)
    \/ \E i \in DOMAIN eventRecords, k \in 1..2 : UnlinkBloc(i, k)
    \/ \E i \in DOMAIN eventRecords, k \in 1..2 : UnselectDay(i, k)

SpecCross == InitCross /\ [][NextCross]_vars

\* ------------------------------------------------------------------------
\* Properties of the cross-product layout (checked under SpecCross)
\* ------------------------------------------------------------------------
\* the number of links of event e to records of the blocs table named B
LinkCount(e, B) ==
    Cardinality({k \in DOMAIN e.blocs :
                    \E j \in DOMAIN blocRecords :
                        blocRecords[j].id = e.blocs[k] /\ blocRecords[j].name = B})
Repeat(x, n) == [k \in 1..n |-> x]
\* the events expected in the column group of B in week W, from the i-th
\* event on: in encounter order, the events that link W, once for each of
\* their links to a bloc named B
RECURSIVE Expected(_, _, _)
Expected(W, B, i) ==
    IF i > Len(eventRecords) THEN <<>>
    ELSE (IF W \in Range(eventRecords[i].weeks)
          THEN Repeat(eventRecords[i], LinkCount(eventRecords[i], B))
          ELSE <<>>) \o Expected(W, B, i + 1)

MaxPins == 2       \* records to geocode

\* the views a user moves the map to
UserViews == {View(488, 23, 5), View(-339, 1512, 14)}
\* the view of a single location, zoom 12
FitOne == View(455, -736, 12)
\* mapInstance.cameraForBounds(bounds, {padding: 80}): no camera, or a camera
\* whose zoom may not be a number
NoCamera == -1
CameraZooms == {0, 7, 20, NotNumber}
\* zoom: Math.min(Math.max(zoomValue, 1), 16), zoomValue 8 when camera.zoom
\* is not a number
FitZoom(cameraZoom) ==
    LET zoomValue == IF cameraZoom # NotNumber THEN cameraZoom ELSE 8
    IN Min(Max(zoomValue, 1), 16)
FitMany(cameraZoom) == View(460, -740, FitZoom(cameraZoom))

hasGeocodingWork == geocodingInputs > 0
shouldWaitForGeocoding == hasGeocodingWork /\ geocodingStatus # "completed"

\* the page is opened: first render, then the effects of the mount in order.
\* Load effect: the item is read into savedViewRef.  Persist effect: the
\* default viewState is written.  Geocoding effect: without records,
\* setLocations([]) (a new array) and setGeocodingStatus(Idle); with records,
\* process() sets the status to Running.  Initial view effect: the map is not
\* ready, nothing.
Mount(autoCenter, inputs) ==
    /\ ~mounted
    /\ mounted' = TRUE
    /\ autoCenterOnLoad' = autoCenter
    /\ geocodingInputs' = inputs
    /\ isMapReady' = FALSE
    /\ locations' = 0
    /\ viewState' = DefaultView
    /\ initialCameraAppliedRef' = FALSE
    /\ hideMapUntilCameraReady' = TRUE
    /\ savedViewRef' = ParseSaved(storage)
    /\ storage' = stringify(DefaultView)
    /\ geocodingStatus' = IF inputs = 0 THEN "idle" ELSE "running"
    /\ renderDue' = TRUE
    /\ viewDue' = FALSE
    /\ cameraDue' = TRUE
    /\ UNCHANGED <<timeZone, pageVars, reconVars, gridVars>>

\* setViewState(view) in the initial view effect, and the value the effect
\* leaves in initialCameraAppliedRef
setViewState(view, applied) ==
    /\ viewState' = view
    /\ initialCameraAppliedRef' = applied
    /\ renderDue' = TRUE
    /\ viewDue' = TRUE

\* the initial view effect sets no state
NoViewSet(applied) ==
    /\ initialCameraAppliedRef' = applied
    /\ UNCHANGED viewState
    /\ renderDue' = FALSE
    /\ viewDue' = FALSE

\* the initial view effect
InitialViewEffect ==
    IF ~isMapReady \/ initialCameraAppliedRef THEN NoViewSet(initialCameraAppliedRef)
    ELSE IF autoCenterOnLoad /\ hasGeocodingWork /\ geocodingStatus = "idle"
    THEN NoViewSet(FALSE)
    ELSE IF autoCenterOnLoad /\ locations > 0
    THEN IF locations = 1 THEN setViewState(FitOne, TRUE)
         ELSE \E camera \in CameraZooms \cup {NoCamera} :
                 IF camera # NoCamera THEN setViewState(FitMany(camera), TRUE)
                 ELSE NoViewSet(TRUE)
    ELSE IF autoCenterOnLoad /\ hasGeocodingWork /\ geocodingStatus = "running"
    THEN NoViewSet(FALSE)
    ELSE IF savedViewRef.kind = "view" THEN setViewState(ViewOf(savedViewRef), TRUE)
    ELSE NoViewSet(TRUE)

\* a render, with the effects whose dependencies changed
Render ==
    /\ mounted
    /\ renderDue
    /\ hideMapUntilCameraReady' = (~initialCameraAppliedRef \/ shouldWaitForGeocoding)
    /\ storage' = IF viewDue THEN stringify(viewState) ELSE storage
    /\ IF cameraDue THEN InitialViewEffect ELSE NoViewSet(initialCameraAppliedRef)
    /\ cameraDue' = FALSE
    /\ UNCHANGED <<timeZone, pageVars, reconVars, gridVars, mounted, autoCenterOnLoad,
                   geocodingInputs, isMapReady, geocodingStatus, locations, savedViewRef>>

\* onLoad of the map: setIsMapReady(true)
OnLoad ==
    /\ mounted
    /\ ~isMapReady
    /\ isMapReady' = TRUE
    /\ renderDue' = TRUE
    /\ cameraDue' = TRUE
    /\ UNCHANGED <<timeZone, pageVars, reconVars, gridVars, storage, mounted,
                   autoCenterOnLoad, geocodingInputs, geocodingStatus, locations,
                   viewState, savedViewRef, initialCameraAppliedRef,
                   hideMapUntilCameraReady, viewDue>>

\* process() has gone through the records, found of them geocoded:
\* setLocations(out), setGeocodingStatus(Completed)
GeocodingCompleted(found) ==
    /\ mounted
    /\ geocodingStatus = "running"
    /\ found \in 0..geocodingInputs
    /\ locations' = found
    /\ geocodingStatus' = "completed"
    /\ renderDue' = TRUE
    /\ cameraDue' = TRUE
    /\ UNCHANGED <<timeZone, pageVars, reconVars, gridVars, storage, mounted,
                   autoCenterOnLoad, geocodingInputs, isMapReady, viewState,
                   savedViewRef, initialCameraAppliedRef, hideMapUntilCameraReady,
                   viewDue>>

\* onMove: the user moves the visible map
OnMove(view) ==
    /\ mounted
    /\ isMapReady
    /\ ~hideMapUntilCameraReady
    /\ viewState' = view
    /\ renderDue' = TRUE
    /\ viewDue' = TRUE
    /\ UNCHANGED <<timeZone, pageVars, reconVars, gridVars, storage, mounted,
                   autoCenterOnLoad, geocodingInputs, isMapReady, geocodingStatus,
                   locations, savedViewRef, initialCameraAppliedRef,
                   hideMapUntilCameraReady, cameraDue>>

\* the page is closed, no render pending
Unmount ==
    /\ mounted
    /\ ~renderDue
    /\ mounted' = FALSE
    /\ UNCHANGED <<timeZone, pageVars, reconVars, gridVars, storage, autoCenterOnLoad,
                   geocodingInputs, isMapReady, geocodingStatus, locations, viewState,
                   savedViewRef, initialCameraAppliedRef, hideMapUntilCameraReady,
                   renderDue, viewDue, cameraDue>>

\* the items found in localStorage at the first load
InitialItems ==
    {NoItem, Garbage, stringify(View(488, 23, 5)),
     [kind |-> "json", latitude |-> 488, longitude |-> 23, zoom |-> NotNumber]}

InitMap ==
    /\ PageIdle
    /\ GridIdle
    /\ storage \in InitialItems
    /\ mounted = FALSE
    /\ autoCenterOnLoad = TRUE
    /\ geocodingInputs = 0
    /\ isMapReady = FALSE
    /\ geocodingStatus = "idle"
    /\ locations = 0
    /\ viewState = DefaultView
    /\ savedViewRef = NoSaved
    /\ initialCameraAppliedRef = FALSE
    /\ hideMapUntilCameraReady = TRUE
    /\ renderDue = FALSE
    /\ viewDue = FALSE
    /\ cameraDue = FALSE

NextMap ==
    \/ \E autoCenter \in BOOLEAN, inputs \in 0..MaxPins : Mount(autoCenter, inputs)
    \/ Render
    \/ OnLoad
    \/ \E found \in 0..MaxPins : GeocodingCompleted(found)
    \/ \E view \in UserViews : OnMove(view)
    \/ Unmount

SpecMap == InitMap /\ [][NextMap]_vars

\* a pending render is made, the map loads, and the geocoding requests return
SpecMapLive ==
    /\ SpecMap
    /\ WF_vars(Render)
    /\ WF_vars(OnLoad)
    /\ WF_vars(\E found \in 0..MaxPins : GeocodingCompleted(found))

\* ------------------------------------------------------------------------
\* Properties of the venues map (checked under SpecMap and SpecMapLive)
\* ------------------------------------------------------------------------
\* the initial view effect decides the initial camera in this step
CameraApplied == mounted /\ ~initialCameraAppliedRef /\ initialCameraAppliedRef'
\* the view a load restores: the saved view, or the default without one
RestoredView ==
    IF savedViewRef.kind = "view" THEN ViewOf(savedViewRef) ELSE DefaultView

\* C22 (as claimed): the item is read once, when the page is opened; once
\* the renders are done the item is the text of the current view, so every
\* change of the view is written; and the view of the map when its initial
\* camera has been decided is the view that was saved last, or the default
\* view when the item is missing or corrupt.
SavedMapView ==
    /\ [][savedViewRef' # savedViewRef
             => ~mounted /\ mounted' /\ savedViewRef' = ParseSaved(storage)]_vars
    /\ [](mounted /\ ~renderDue => storage = stringify(viewState))
    /\ [](\A view \in UserViews \cup {DefaultView} :
             ParseSaved(stringify(view)) = Saved(view))
    /\ [][CameraApplied => viewState' = RestoredView]_vars

\* C28 (as claimed): when the map has loaded and the geocoding has nothing
\* to do or has completed, the overlay is eventually removed (or the page
\* closed), with no step other than the pending renders; and once the
\* initial camera has been decided, the initial view effect does not set the
\* view again.
MapBecomesVisible ==
    /\ [](mounted /\ isMapReady /\ ~shouldWaitForGeocoding
             => <>(~hideMapUntilCameraReady \/ ~mounted))
    /\ [][mounted /\ mounted' /\ initialCameraAppliedRef
             => /\ initialCameraAppliedRef'
                /\ viewState' # viewState => ~hideMapUntilCameraReady /\ ~cameraDue']_vars

\* ------------------------------------------------------------------------
\* Properties of the page (checked under Spec): error, loading and figures
\* ------------------------------------------------------------------------
\* the request of the last effect run has ended with the series obtained
Succeeded ==
    /\ cur # 0
    /\ reqs[cur].pc = "returned"
    /\ reqs[cur].outcome \in {"committed", "hit"}

\* C23 (as claimed): once the request of the last effect run has ended
\* successfully, from the network or from the cache, error is null.
ErrorClearedBySuccess == Succeeded => error = NoError

\* C24 (as claimed): in every state in which no request that has not been
\* superseded is in flight, loading is false.
LoadingDoesNotStick == ~LiveFetch(reqs) => loading = FALSE

\* salesData.length > 0: the fixed KPIs show numbers
FiguresShown == salesData # <<>>

\* C25 (as claimed): once the effect has run for the current selection,
\* whenever the fixed KPIs show numbers, salesData is the series obtained
\* for the current cache key, also while its request is loading and after it
\* has failed.
NoStaleFigures ==
    ~effectDue /\ FiguresShown
        => cacheKey \in DOMAIN cacheRef /\ salesData = cacheRef[cacheKey]

\* ------------------------------------------------------------------------
\* Properties of the reconstruction (checked under SpecRecon): several rows
\* on the same day
\* ------------------------------------------------------------------------
\* the maximum of component c over all the rows of a performance dated on or
\* before the day, 0 without such a row
MaxOn(rid, day, c) ==
    SetMax({0} \cup {OrZero(rcRows[i].v[c]) :
                        i \in {j \in DOMAIN rcRows :
                                 /\ rcRows[j].record_id = rid
                                 /\ DayOf(rcRows[j]) # NullDate
                                 /\ DayOf(rcRows[j]) <= day}})
RECURSIVE SumMaxOn(_, _, _)
SumMaxOn(S, day, c) ==
    IF S = {} THEN 0
    ELSE LET rid == CHOOSE rid \in S : TRUE
         IN MaxOn(rid, day, c) + SumMaxOn(S \ {rid}, day, c)

\* C26 (as claimed): in UTC and with every row dated, the value of each
\* component at each day of the series is the maximum over all the rows of
\* the performance dated on or before that day (in aggregate mode the sum
\* of these maxima over the performances), also when several rows bear the
\* same day, whatever their order.
DuplicateDays ==
    (/\ timeZone = UTC
     /\ rcMode # "none"
     /\ \A i \in DOMAIN rcRows : rcRows[i].date # NullDate
     /\ rcMode = "single" =>
           \A i, j \in DOMAIN rcRows : rcRows[i].record_id = rcRows[j].record_id)
        => \A i \in DOMAIN rcOut :
              /\ rcOut[i].ventes = SumMaxOn(Perfs, rcOut[i].date, "sold")
              /\ rcOut[i].gratuits = SumMaxOn(Perfs, rcOut[i].date, "free")
              /\ rcOut[i].total_dollars = SumMaxOn(Perfs, rcOut[i].date, "total")

\* ------------------------------------------------------------------------
\* Properties of the week groups (checked under SpecCross)
\* ------------------------------------------------------------------------
\* C27 (as claimed): every week group of the builder holds an event to
\* display: in the layout with totals a non-empty list of events, in the
\* cross-product layout a non-empty list of events under a bloc of
\* BLOC_ORDER at least.
NoEmptyWeekGroup ==
    /\ \A g \in DOMAIN sortedWeeks : sortedWeeks[g].events # <<>>
    /\ \A g \in DOMAIN crossSortedWeeks :
          \E b \in DOMAIN BLOC_ORDER_CROSS :
              BlocEvents(crossSortedWeeks[g], BLOC_ORDER_CROSS[b]) # <<>>

\* ------------------------------------------------------------------------
\* Adjacent date ranges (checked under SpecPeriod)
\* ------------------------------------------------------------------------
\* the days from the first to the last point of the series
SpanOf(series) ==
    IF series = <<>> THEN {}
    ELSE {d \in PeriodDays : series[1].date <= d /\ d <= series[Len(series)].date}

\* C29: period deltas telescope: when the range [dateFrom, dateTo] lies
\* inside the span of the series, then for every day b that cuts it in two
\* adjacent ranges [dateFrom, b] and [b + 1, dateTo] the three period
\* statistics exist and delta[dateFrom, b] + delta[b + 1, dateTo] =
\* delta[dateFrom, dateTo], for tickets sold and for revenue; and every
\* period delta, whatever the range, is greater than or equal to 0.
DeltasTelescope ==
    /\ \A b \in SpanOf(salesData) :
          (/\ dateFrom \in SpanOf(salesData)
           /\ dateTo \in SpanOf(salesData)
           /\ dateFrom <= b
           /\ b < dateTo)
             => \A left \in {periodStatsOf(salesData, dateFrom, b)} :
                \A right \in {periodStatsOf(salesData, b + 1, dateTo)} :
                   /\ left # NullStats
                   /\ right # NullStats
                   /\ periodStats # NullStats
                   /\ left.ventesInPeriod + right.ventesInPeriod
                         = periodStats.ventesInPeriod
                   /\ left.revenusInPeriod + right.revenusInPeriod
                         = periodStats.revenusInPeriod
    /\ periodStats # NullStats =>
          /\ periodStats.ventesInPeriod >= 0
          /\ periodStats.revenusInPeriod >= 0

\* sold 0, 4, 10, 10, 15 on days 1..5: the range of days 2..5 gives 15, cut
\* after day 3 it gives 10 for days 2..3 and 5 for days 4..5
DeltasTelescopeWitness ==
    /\ [i \in DOMAIN salesData |-> salesData[i].ventes] = <<0, 4, 10, 10, 15>>
    /\ [i \in DOMAIN salesData |-> salesData[i].date] = <<1, 2, 3, 4, 5>>
    /\ dateFrom = 2
    /\ dateTo = 5
    /\ periodStats.ventesInPeriod = 15
    /\ periodStatsOf(salesData, 2, 3).ventesInPeriod = 10
    /\ periodStatsOf(salesData, 4, 5).ventesInPeriod = 5

\* ------------------------------------------------------------------------
\* The local filters next to the fetch effect (lines 889-910, 1137-1152,
\* 1367-1368)
\* ------------------------------------------------------------------------
\* onChange of the 'Afficher tout' checkbox
SetShowAll(checked) ==
    /\ checked # showAll
    /\ showAll' = checked
    /\ UNCHANGED <<timeZone, representations, supabaseUrl, supabaseAnonKey, selectedRepId,
                   salesData, loading, error, dateFrom, dateTo, cacheRef, effectDue,
                   reqs, calls, reconVars, gridVars, mapVars>>

\* the values given to the date inputs while requests are under way
LocalDays == {EmptyDate, 2}

NextLocal ==
    \/ Next
    \/ \E value \in LocalDays : SetDateFrom(value)
    \/ \E value \in LocalDays : SetDateTo(value)
    \/ \E from \in LocalDays : setPreset(from)
    \/ \E checked \in BOOLEAN : SetShowAll(checked)

SpecLocal == Init /\ [][NextLocal]_vars

\* ------------------------------------------------------------------------
\* Properties of the local filters (checked under SpecLocal)
\* ------------------------------------------------------------------------
LocalFilterStep == dateFrom' # dateFrom \/ dateTo' # dateTo \/ showAll' # showAll
RequestIssued == calls' = calls + 1

\* C30: a step that changes dateFrom, dateTo (by an input or a preset) or
\* showAll issues no request (no call of fetchSales, no effect run due) and
\* leaves salesData, loading, error and the cache unchanged; and every
\* request issued in aggregate mode asks for every representation of the
\* show, those hidden from the table included.
LocalFiltersKeepData ==
    [][/\ LocalFilterStep =>
             UNCHANGED <<salesData, loading, error, cacheRef, reqs, calls, effectDue>>
       /\ (RequestIssued /\ isAllMode) =>
             reqs'[Len(reqs')].ids = representations]_vars

\* a series on display fetched by the one aggregate request of the page,
\* which asked for recB although the table hides it; the date range was
\* set afterwards and the checkbox ticked and unticked
LocalFiltersKeepDataWitness ==
    /\ calls = 1
    /\ salesData # <<>>
    /\ ~loading
    /\ dateFrom = 2
    /\ dateTo = 2
    /\ ~showAll
    /\ "recB" \in Range(representations)
    /\ "recB" \notin Range(filteredReps)
    /\ cur # 0
    /\ reqs[cur].isAllMode
    /\ reqs[cur].outcome = "committed"
    /\ "recB" \in Range(reqs[cur].ids)
====
